---------------------------- MODULE Spec2Model ----------------------------
(***************************************************************************)
(* Job application tracker: the ledger (first worksheet of the configured  *)
(* spreadsheet), the mailbox with its processed label, the fallback CSV    *)
(* file and one JobTracker process walking through run().                   *)
(***************************************************************************)
EXTENDS Integers, Sequences, FiniteSets, TLC

(***************************************************************************)
(* Bounds of the model.                                                     *)
(***************************************************************************)
MaxRuns == 3
MaxRows == 2
MaxSheets == 2
MaxCsvWrites == 1
MaxImports == 1

(***************************************************************************)
(* Mailbox content.  A message is known by its Gmail id; what the parser    *)
(* extracts from it is fixed by its text.  m1 and m2 concern the same       *)
(* application (same company, position, keywords and day): m1 acknowledges  *)
(* it and m2 is the later rejection.                                        *)
(***************************************************************************)
Messages == {"m1", "m2"}

ArrivalOrder == <<"m1", "m2">>

MsgJobId(m) == "Acme_Engineer_0b1d5e77"

MsgCompany(m) == "Acme"

MsgPosition(m) == "Engineer"

MsgStatus(m) == IF m = "m2" THEN "Rejected" ELSE "Applied"

MsgDate(m) == IF m = "m2" THEN "2024-01-15T17:45:00" ELSE "2024-01-15T09:30:00"

None == [found |-> FALSE]

(***************************************************************************)
(* datetime.datetime.now().isoformat(): a timestamp is known by the call    *)
(* that took it.                                                            *)
(***************************************************************************)
Now(call) == <<"now", call>>

(***************************************************************************)
(* Text is a sequence of pieces; concatenation is \o and the empty string   *)
(* is << >>.                                                                *)
(***************************************************************************)
IsPrefix(s, t) == Len(s) <= Len(t) /\ SubSeq(t, 1, Len(s)) = s

VARIABLES
    gmail_service,      \* self.gmail_service is set
    sheets_service,     \* self.sheets_service is set
    gspread_client,     \* self.gspread_client is set
    spreadsheet_id,     \* config['spreadsheet_id'], 0 for None
    sheets_created,     \* number of spreadsheets created so far
    header,             \* row 1 of the worksheet holds the column names
    ledger,             \* data rows of the worksheet, in sheet order
    csv_file,           \* rows of job_applications_fallback.csv
    csv_writes,         \* number of writes made to the fallback file
    imports,            \* number of import files saved so far
    inbox,              \* messages carrying the job applications label
    processed,          \* messages carrying the processed label
    runs,               \* number of runs that reached the parsing loop
    pc,                 \* position of the process inside run()
    job_applications,   \* run(): the parsed candidates of the batch
    idx,                \* loop index of process_job_applications_with_updates
    new_jobs,           \* process_job_applications_with_updates: new_jobs
    status_updates,     \* process_job_applications_with_updates: status_updates
    outcome,            \* per candidate: what its iteration did
    batch,              \* run(): the messages search_job_emails returned, and
                        \* whether fetching and parsing each succeeded
    saved,              \* run(): what update_spreadsheet did with new_jobs
    imported_jobs,      \* import_and_track.main: the rows of the imported file
    updates,            \* import_and_track.main: what search_for_status_updates returned
    call                \* the last application of a pure function: name, arguments, result

vars == <<gmail_service, sheets_service, gspread_client, spreadsheet_id,
          sheets_created, header, ledger, csv_file, csv_writes, imports, inbox,
          processed, runs,
          pc, job_applications, idx, new_jobs, status_updates, outcome,
          batch, saved, imported_jobs, updates, call>>


(***************************************************************************)
(* The fixed schema: column letters of the worksheet and the fields of a    *)
(* row, in the order update_spreadsheet writes them.                        *)
(***************************************************************************)
Columns == <<"job_id", "company", "position", "application_date", "status",
             "email_id", "email_date", "source", "notes", "last_updated">>

Letters == <<"A", "B", "C", "D", "E", "F", "G", "H", "I", "J">>

ColumnOf(letter) == Columns[CHOOSE i \in DOMAIN Letters : Letters[i] = letter]

HeaderRow == <<"Job ID", "Company", "Position", "Application Date", "Status",
               "Email ID", "Email Date", "Source", "Notes", "Last Updated">>

\* get_all_records keys every cell by the header of its column
HeaderField(name) == Columns[CHOOSE i \in DOMAIN HeaderRow : HeaderRow[i] = name]

(***************************************************************************)
(* authenticate_and_get_status.  token is what TOKEN_FILE holds, browser    *)
(* what the installed-app flow does, build the first of the three client    *)
(* constructions that raises (0: none).                                     *)
(***************************************************************************)
TokenStates == {"missing", "valid", "expired", "invalid", "unreadable"}

BrowserOutcomes == {"ok", "invalid_creds", "no_credentials_file", "error"}

\* inputs that the code never reads on a path are held at one value
AuthEnvs ==
    {e \in [token : TokenStates, refresh_ok : BOOLEAN,
            browser : BrowserOutcomes, build : 0..3] :
        /\ e.token # "expired" => e.refresh_ok
        /\ (e.token = "valid" \/ (e.token = "expired" /\ e.refresh_ok)) => e.browser = "ok"
        /\ (e.token = "expired" /\ e.refresh_ok) => e.build = 0
        /\ e.browser # "ok" => e.build = 0}

TokenStatus(env) ==
    IF env.token = "valid" THEN "TOKEN_SUCCESS"
    ELSE IF env.token = "expired" /\ env.refresh_ok THEN "TOKEN_REFRESHED"
    ELSE "FAILURE"

AuthStatus(env) ==
    IF TokenStatus(env) \in {"TOKEN_SUCCESS", "TOKEN_REFRESHED"}
    THEN TokenStatus(env)
    ELSE IF env.browser \in {"ok", "invalid_creds"} THEN "BROWSER_AUTH_SUCCESS"
    ELSE "FAILURE"

\* creds and creds.valid at the point where the clients are built
CredsValid(env) ==
    \/ TokenStatus(env) \in {"TOKEN_SUCCESS", "TOKEN_REFRESHED"}
    \/ env.browser = "ok"

authenticate_and_get_status(env) ==
    LET status == AuthStatus(env)
        builds == /\ status \in {"TOKEN_SUCCESS", "BROWSER_REFRESHED", "BROWSER_AUTH_SUCCESS"}
                  /\ CredsValid(env)
    IN  IF builds
        THEN [success |-> env.build = 0,
              status  |-> IF env.build = 0 THEN status ELSE "FAILURE",
              gmail   |-> gmail_service \/ env.build \notin {1},
              sheets  |-> sheets_service \/ env.build \notin {1, 2},
              gspread |-> gspread_client \/ env.build = 0]
        ELSE [success |-> FALSE, status |-> status,
              gmail   |-> gmail_service,
              sheets  |-> sheets_service,
              gspread |-> gspread_client]

(***************************************************************************)
(* parse_job_application on the deterministic path: the candidate record    *)
(* of message m.                                                           *)
(***************************************************************************)
parse_job_application_basic(m) ==
    [job_id           |-> MsgJobId(m),
     company          |-> MsgCompany(m),
     position         |-> MsgPosition(m),
     application_date |-> MsgDate(m),
     status           |-> MsgStatus(m),
     email_id         |-> m,
     email_date       |-> MsgDate(m),
     source           |-> "Gmail (Basic)",
     notes            |-> <<"Subject: ", m, " | Basic parsing used">>,
     last_updated     |-> Now("_parse_job_application_basic")]

\* faulty variant of find_existing_job: a lookup that raises is not caught and the
\* rows read before are used
find_existing_job_unguarded(rows, job_id, read_ok) ==
    LET hits == {i \in DOMAIN rows : rows[i].job_id = job_id}
    IN  IF hits = {}
        THEN [found |-> FALSE]
        ELSE LET i == CHOOSE h \in hits : \A g \in hits : h <= g
             IN  [found |-> TRUE, row_number |-> i + 1, data |-> rows[i]]

(***************************************************************************)
(* find_existing_job against the rows of the worksheet.  read_ok is false   *)
(* when opening or reading the sheet raises.                                *)
(***************************************************************************)
LookupFails(read_ok) == spreadsheet_id = 0 \/ ~gspread_client \/ ~read_ok

find_existing_job(rows, job_id, read_ok) ==
    IF LookupFails(read_ok) \/ ~header
    THEN None
    ELSE LET hits == {i \in DOMAIN rows : rows[i][HeaderField("Job ID")] = job_id}
         IN  IF hits = {}
             THEN None
             ELSE LET i == CHOOSE h \in hits : \A g \in hits : h <= g
                  IN  [found |-> TRUE, row_number |-> i + 1, data |-> rows[i]]

\* worksheet.update of one cell; row 1 of the sheet is the header
update_cell(rows, row_num, letter, value) ==
    [rows EXCEPT ![row_num - 1][ColumnOf(letter)] = value]

(***************************************************************************)
(* update_existing_job_status.  fail names the call that raises ("none":    *)
(* no call does); the cell writes made before it stay in the sheet.         *)
(***************************************************************************)
UpdateFailures == {"none", "find", "open", "D", "J", "I"}

\* faulty variant of updated_notes: the note replaces the notes
updated_notes_overwrite(current_notes, new_status, new_email_id) ==
    <<"Status updated to ", new_status, " via email ", new_email_id>>

\* the Notes value update_existing_job_status writes
updated_notes(current_notes, new_status, new_email_id) ==
    LET new_note == <<"Status updated to ", new_status, " via email ", new_email_id>>
    IN  IF current_notes # << >>
        THEN current_notes \o <<"; ">> \o new_note
        ELSE new_note

update_existing_job_status(rows, job_id, new_status, new_email_id, fail) ==
    LET existing_job == find_existing_job(rows, job_id, fail # "find")
    IN  IF ~existing_job.found \/ fail = "open" \/ fail = "D"
        THEN [ok |-> FALSE, rows |-> rows, cells |-> 0]
        ELSE
        LET row_num == existing_job.row_number
            rows1 == update_cell(rows, row_num, "D", new_status)
            rows2 == update_cell(rows1, row_num, "J", Now("update_existing_job_status"))
            current_notes == existing_job.data[HeaderField("Notes")]
            rows3 == update_cell(rows2, row_num, "I",
                                 updated_notes(current_notes, new_status, new_email_id))
        IN  IF fail = "J" THEN [ok |-> FALSE, rows |-> rows1, cells |-> 1]
            ELSE IF fail = "I" THEN [ok |-> FALSE, rows |-> rows2, cells |-> 2]
            ELSE [ok |-> TRUE, rows |-> rows3, cells |-> 3]


(***************************************************************************)
(* create_or_get_spreadsheet.  open_ok: the configured spreadsheet can be   *)
(* opened; create: "fail" when creating raises, "no_header" when the        *)
(* spreadsheet is created and configured but writing the header raises,     *)
(* "ok" otherwise.  A new spreadsheet starts without data rows.             *)
(***************************************************************************)
CreateOutcomes == {"fail", "no_header", "ok"}

Unchanged == [id |-> spreadsheet_id, created |-> sheets_created,
              header |-> header, rows |-> ledger]

create_or_get_spreadsheet(client, open_ok, create) ==
    IF ~client
    THEN [ret |-> 0] @@ Unchanged
    ELSE IF spreadsheet_id # 0 /\ open_ok
    THEN [ret |-> spreadsheet_id] @@ Unchanged
    ELSE IF create = "fail" \/ sheets_created >= MaxSheets
    THEN [ret |-> 0] @@ Unchanged
    ELSE [ret     |-> IF create = "ok" THEN sheets_created + 1 ELSE 0,
          id      |-> sheets_created + 1,
          created |-> sheets_created + 1,
          header  |-> create = "ok",
          rows    |-> << >>]

\* the fields write_to_csv writes for a job, in the order of its columns
CsvColumns == <<"job_id", "company", "position", "application_date", "status",
                "email_id", "email_date", "source", "notes", "last_updated">>

\* faulty variant of write_to_csv: the loop over the jobs ends after the first
write_to_csv_first(file, jobs, csv_ok) ==
    IF csv_ok /\ csv_writes < MaxCsvWrites
    THEN [ok |-> TRUE, file |-> file \o SubSeq(jobs, 1, 1), writes |-> csv_writes + 1]
    ELSE [ok |-> FALSE, file |-> file, writes |-> csv_writes]

\* write_to_csv: the rows of the jobs, appended in input order
write_to_csv(file, jobs, csv_ok) ==
    IF csv_ok /\ csv_writes < MaxCsvWrites
    THEN [ok |-> TRUE, file |-> file \o jobs, writes |-> csv_writes + 1]
    ELSE [ok |-> FALSE, file |-> file, writes |-> csv_writes]

(***************************************************************************)
(* update_spreadsheet: append one row per job to the worksheet, or fall     *)
(* back to the CSV file when anything raises.                               *)
(***************************************************************************)
SaveEnvs == [open_ok : BOOLEAN, create : CreateOutcomes,
             append_ok : BOOLEAN, csv_ok : BOOLEAN]

\* faulty variant of update_spreadsheet: a Job ID is written once per call
update_spreadsheet_once(client, jobs, env) ==
    LET got == create_or_get_spreadsheet(client, env.open_ok, env.create)
        csv == write_to_csv(csv_file, jobs, env.csv_ok)
        unique == SelectSeq(jobs, LAMBDA job : job = jobs[CHOOSE i \in DOMAIN jobs :
                                                   jobs[i].job_id = job.job_id /\
                                                   \A j \in 1..(i - 1) :
                                                       jobs[j].job_id # job.job_id])
    IN  IF got.ret # 0 /\ client /\ env.append_ok /\ Len(got.rows) + Len(jobs) <= MaxRows
        THEN [ok |-> TRUE, how |-> "sheet", id |-> got.id, created |-> got.created,
              header |-> got.header, rows |-> got.rows \o unique, file |-> csv_file,
              writes |-> csv_writes]
        ELSE [ok |-> csv.ok, how |-> IF csv.ok THEN "csv" ELSE "lost",
              id |-> got.id, created |-> got.created,
              header |-> got.header, rows |-> got.rows, file |-> csv.file,
              writes |-> csv.writes]

update_spreadsheet(client, jobs, env) ==
    LET got == create_or_get_spreadsheet(client, env.open_ok, env.create)
        csv == write_to_csv(csv_file, jobs, env.csv_ok)
    IN  IF got.ret # 0 /\ client /\ env.append_ok /\ Len(got.rows) + Len(jobs) <= MaxRows
        THEN [ok |-> TRUE, how |-> "sheet", id |-> got.id, created |-> got.created,
              header |-> got.header, rows |-> got.rows \o jobs, file |-> csv_file,
              writes |-> csv_writes]
        ELSE [ok |-> csv.ok, how |-> IF csv.ok THEN "csv" ELSE "lost",
              id |-> got.id, created |-> got.created,
              header |-> got.header, rows |-> got.rows, file |-> csv.file,
              writes |-> csv.writes]

(***************************************************************************)
(* search_job_emails: the labelled messages that do not carry the processed *)
(* label, newest first; nothing when the listing raises.                    *)
(***************************************************************************)
RECURSIVE Reverse(_)
Reverse(s) == IF s = << >> THEN << >> ELSE Append(Reverse(Tail(s)), Head(s))

RECURSIVE Filter(_, _)
Filter(s, keep) ==
    IF s = << >> THEN << >>
    ELSE IF Head(s) \in keep THEN <<Head(s)>> \o Filter(Tail(s), keep)
    ELSE Filter(Tail(s), keep)

Range(s) == {s[i] : i \in DOMAIN s}

search_job_emails(gmail, list_ok) ==
    IF ~gmail \/ ~list_ok THEN << >>
    ELSE Reverse(Filter(inbox, Messages \ processed))

\* faulty variant of ParseAll: the loop ends at the first message that fails
RECURSIVE ParseAllBreak(_)
ParseAllBreak(msgs) ==
    IF msgs = << >> \/ ~Head(msgs).ok THEN << >>
    ELSE <<parse_job_application_basic(Head(msgs).id)>> \o ParseAllBreak(Tail(msgs))

\* the loop of run() over the messages: a message whose fetch or parse
\* fails (ok false) is skipped, the others become candidates
RECURSIVE ParseAll(_)
ParseAll(msgs) ==
    IF msgs = << >> THEN << >>
    ELSE IF Head(msgs).ok
    THEN <<parse_job_application_basic(Head(msgs).id)>> \o ParseAll(Tail(msgs))
    ELSE ParseAll(Tail(msgs))

\* faulty variant of after_update: a failed update files the candidate in both lists
after_update_both(new, upd, job_app, ok) ==
    IF ok
    THEN [new_jobs |-> new, status_updates |-> Append(upd, job_app)]
    ELSE [new_jobs |-> Append(new, job_app), status_updates |-> Append(upd, job_app)]

\* faulty variant of after_update: the result of the update is read the wrong way round
after_update_swapped(new, upd, job_app, ok) ==
    IF ok
    THEN [new_jobs |-> Append(new, job_app), status_updates |-> upd]
    ELSE [new_jobs |-> new, status_updates |-> Append(upd, job_app)]

\* process_job_applications_with_updates: where a candidate whose status
\* differs from its row goes, given what update_existing_job_status returned
after_update(new, upd, job_app, ok) ==
    IF ok
    THEN [new_jobs |-> new, status_updates |-> Append(upd, job_app)]
    ELSE [new_jobs |-> Append(new, job_app), status_updates |-> upd]


(***************************************************************************)
(* Bulk import.  A file is a sequence of rows: x1 is the application that   *)
(* m1 and m2 are about (same company, position and day, no subject), x2 is  *)
(* another application; a file may hold the same application twice.        *)
(***************************************************************************)
ImportFiles == {<<"x2", "x1">>, <<"x1", "x1">>}

convert_to_job_application(x) ==
    [job_id           |-> IF x = "x1" THEN MsgJobId("m1") ELSE "Initech_Analyst_9f2c11aa",
     company          |-> IF x = "x1" THEN MsgCompany("m1") ELSE "Initech",
     position         |-> IF x = "x1" THEN MsgPosition("m1") ELSE "Analyst",
     application_date |-> IF x = "x1" THEN "2024-01-15T00:00:00" ELSE "2024-02-01T00:00:00",
     status           |-> "Applied",
     email_id         |-> "",
     email_date       |-> "",
     source           |-> "Excel Import",
     notes            |-> <<"Imported from Excel/CSV">>,
     last_updated     |-> Now("convert_to_job_applications")]

convert_to_job_applications(file) ==
    [i \in DOMAIN file |-> convert_to_job_application(file[i])]

\* _find_matching_emails: the messages whose text names the company and the
\* position of the imported row
find_matching_emails(x, emails) ==
    Filter(emails, {m \in Messages :
                       /\ MsgCompany(m) = convert_to_job_application(x).company
                       /\ MsgPosition(m) = convert_to_job_application(x).position})

\* _extract_status_from_email: the status its keyword table gives the message
extract_status_from_email(m) == MsgStatus(m)

\* search_for_status_updates: nothing without a Gmail service; otherwise one
\* pair per imported row and matching message, row by row
RECURSIVE search_for_status_updates(_, _, _)
search_for_status_updates(gmail, file, emails) ==
    IF ~gmail \/ file = << >> THEN << >>
    ELSE LET matching == find_matching_emails(Head(file), emails)
         IN  [i \in DOMAIN matching |->
                 [job |-> Head(file),
                  new_status |-> extract_status_from_email(matching[i])]]
             \o search_for_status_updates(gmail, Tail(file), emails)

\* no pure function has been applied
NoCall == [fn |-> "none"]

(***************************************************************************)
(* State after construction: no client, no spreadsheet configured.          *)
(***************************************************************************)
Init ==
    /\ gmail_service = FALSE
    /\ sheets_service = FALSE
    /\ gspread_client = FALSE
    /\ spreadsheet_id = 0
    /\ sheets_created = 0
    /\ header = FALSE
    /\ ledger = << >>
    /\ csv_file = << >>
    /\ csv_writes = 0
    /\ imports = 0
    /\ inbox = << >>
    /\ processed = {}
    /\ runs = 0
    /\ pc = "idle"
    /\ job_applications = << >>
    /\ idx = 1
    /\ new_jobs = << >>
    /\ status_updates = << >>
    /\ outcome = << >>
    /\ batch = << >>
    /\ saved = "none"
    /\ imported_jobs = << >>
    /\ updates = << >>
    /\ call = NoCall

clientVars == <<gmail_service, sheets_service, gspread_client, imports>>
sheetVars == <<spreadsheet_id, sheets_created, header, ledger, csv_file, csv_writes>>
runVars == <<job_applications, idx, new_jobs, status_updates, outcome, batch, saved>>
importVars == <<imported_jobs, updates>>

\* a labelled message arrives in the mailbox
Arrive(m) ==
    /\ pc = "idle"
    /\ Len(inbox) < Len(ArrivalOrder)
    /\ m = ArrivalOrder[Len(inbox) + 1]
    /\ inbox' = Append(inbox, m)
    /\ UNCHANGED <<clientVars, sheetVars, runVars, processed, runs, pc>>
    /\ UNCHANGED <<importVars, call>>

\* run(): authenticate_and_get_status, and return when it fails
RunAuthenticate(env) ==
    /\ pc = "idle"
    /\ LET auth == authenticate_and_get_status(env)
       IN  /\ gmail_service' = auth.gmail
           /\ sheets_service' = auth.sheets
           /\ gspread_client' = auth.gspread
           /\ pc' = IF auth.success THEN "search" ELSE "idle"
    /\ UNCHANGED <<imports, sheetVars, runVars, inbox, processed, runs>>
    /\ UNCHANGED <<importVars, call>>

(***************************************************************************)
(* run(): search_job_emails, then the loop that fetches and parses every    *)
(* message.  The messages outside got are those whose fetch or parse fails. *)
(***************************************************************************)
Search(list_ok, got) ==
    /\ pc = "search"
    /\ LET messages == search_job_emails(gmail_service, list_ok)
       IN  IF messages = << >> \/ runs >= MaxRuns
           THEN /\ got = {}
                /\ pc' = "idle"
                /\ UNCHANGED <<runVars, runs>>
           ELSE /\ got \subseteq Range(messages)
                /\ runs' = runs + 1
                /\ batch' = [i \in DOMAIN messages |->
                                [id |-> messages[i], ok |-> messages[i] \in got]]
                /\ job_applications' = ParseAll(batch')
                /\ pc' = IF job_applications' = << >> THEN "save" ELSE "classify"
                /\ UNCHANGED <<idx, new_jobs, status_updates, outcome, saved>>
    /\ UNCHANGED <<clientVars, sheetVars, inbox, processed>>
    /\ UNCHANGED <<importVars, call>>

(***************************************************************************)
(* One iteration of the loop of process_job_applications_with_updates,      *)
(* update_existing_job_status included.                                     *)
(***************************************************************************)
Classify(read_ok, fail) ==
    /\ pc = "classify"
    /\ LET job_app == job_applications[idx]
           existing_job == find_existing_job(ledger, job_app.job_id, read_ok)
           lookup == IF LookupFails(read_ok) THEN "failed"
                     ELSE IF existing_job.found THEN "found" ELSE "absent"
       IN  IF existing_job.found
           THEN LET current_status == existing_job.data[HeaderField("Status")]
                IN  IF current_status # job_app.status
                    THEN LET upd == update_existing_job_status(ledger, job_app.job_id,
                                        job_app.status, job_app.email_id, fail)
                             lists == after_update(new_jobs, status_updates, job_app, upd.ok)
                         IN  /\ ledger' = upd.rows
                             /\ new_jobs' = lists.new_jobs
                             /\ status_updates' = lists.status_updates
                             /\ outcome' = Append(outcome,
                                    [lookup |-> lookup, update |-> "called",
                                     ok |-> upd.ok, cells |-> upd.cells])
                    ELSE /\ fail = "none"
                         /\ outcome' = Append(outcome,
                                [lookup |-> lookup, update |-> "skipped",
                                 ok |-> FALSE, cells |-> 0])
                         /\ UNCHANGED <<ledger, new_jobs, status_updates>>
           ELSE /\ fail = "none"
                /\ new_jobs' = Append(new_jobs, job_app)
                /\ outcome' = Append(outcome,
                       [lookup |-> lookup, update |-> "skipped",
                        ok |-> FALSE, cells |-> 0])
                /\ UNCHANGED <<ledger, status_updates>>
    /\ idx' = idx + 1
    /\ pc' = IF idx = Len(job_applications) THEN "save" ELSE "classify"
    /\ UNCHANGED <<clientVars, spreadsheet_id, sheets_created, header, csv_file, csv_writes,
                   job_applications, batch, saved, inbox, processed, runs>>
    /\ UNCHANGED <<importVars, call>>

\* run(): update_spreadsheet(new_jobs) when there are new jobs
Save(env) ==
    /\ pc = "save"
    /\ IF new_jobs # << >>
       THEN LET res == update_spreadsheet(gspread_client, new_jobs, env)
            IN  /\ spreadsheet_id' = res.id
                /\ sheets_created' = res.created
                /\ header' = res.header
                /\ ledger' = res.rows
                /\ csv_file' = res.file
                /\ csv_writes' = res.writes
                /\ saved' = res.how
       ELSE /\ env = [open_ok |-> TRUE, create |-> "ok", append_ok |-> TRUE, csv_ok |-> TRUE]
            /\ UNCHANGED <<sheetVars, saved>>
    /\ pc' = "mark"
    /\ UNCHANGED <<clientVars, job_applications, idx, new_jobs, status_updates,
                   outcome, batch, inbox, processed, runs>>
    /\ UNCHANGED <<importVars, call>>

EmailIds(jobs) == {jobs[i].email_id : i \in DOMAIN jobs}

\* run(): mark_email_processed for every new job and status update;
\* the messages in marked are those for which it succeeds
Mark(marked) ==
    /\ pc = "mark"
    /\ marked \subseteq EmailIds(new_jobs \o status_updates)
    /\ gmail_service \/ marked = {}
    /\ processed' = processed \cup marked
    /\ pc' = "done"
    /\ UNCHANGED <<clientVars, sheetVars, runVars, inbox, runs>>
    /\ UNCHANGED <<importVars, call>>

\* run() returns
Finish ==
    /\ pc = "done"
    /\ pc' = "idle"
    /\ job_applications' = << >>
    /\ idx' = 1
    /\ new_jobs' = << >>
    /\ status_updates' = << >>
    /\ outcome' = << >>
    /\ batch' = << >>
    /\ saved' = "none"
    /\ UNCHANGED <<clientVars, sheetVars, inbox, processed, runs>>
    /\ UNCHANGED <<importVars, call>>

(***************************************************************************)
(* import_and_track.main on an import file: convert the rows, save them     *)
(* with save_to_spreadsheet, then search_for_status_updates and print what  *)
(* it returned.  The JobTracker of a JobImportTracker is constructed and    *)
(* never authenticated, so its gmail_service and gspread_client are None;   *)
(* it reads and writes the same config file and fallback file.              *)
(***************************************************************************)
Import(file, csv_ok) ==
    /\ pc = "idle"
    /\ imports < MaxImports
    /\ imports' = imports + 1
    /\ imported_jobs' = file
    /\ LET env == [open_ok |-> TRUE, create |-> "ok", append_ok |-> TRUE, csv_ok |-> csv_ok]
           res == update_spreadsheet(FALSE, convert_to_job_applications(file), env)
       IN  /\ spreadsheet_id' = res.id
           /\ sheets_created' = res.created
           /\ header' = res.header
           /\ ledger' = res.rows
           /\ csv_file' = res.file
           /\ csv_writes' = res.writes
    /\ updates' = search_for_status_updates(FALSE, file, inbox)
    /\ UNCHANGED <<gmail_service, sheets_service, gspread_client, runVars, inbox, processed, runs, pc>>
    /\ UNCHANGED call

Next ==
    \/ \E m \in Messages : Arrive(m)
    \/ \E env \in AuthEnvs : RunAuthenticate(env)
    \/ \E list_ok \in BOOLEAN, got \in SUBSET Messages : Search(list_ok, got)
    \/ \E read_ok \in BOOLEAN, fail \in UpdateFailures : Classify(read_ok, fail)
    \/ \E env \in SaveEnvs : Save(env)
    \/ \E marked \in SUBSET Messages : Mark(marked)
    \/ Finish
    \/ \E file \in ImportFiles, csv_ok \in BOOLEAN : Import(file, csv_ok)

Spec == Init /\ [][Next]_vars


(***************************************************************************)
(* Vocabulary of the properties.                                            *)
(***************************************************************************)
\* the step is one iteration of process_job_applications_with_updates
ClassifyStep == pc = "classify" /\ idx' = idx + 1

\* the step is the update_spreadsheet call of run()
SaveStep == pc = "save" /\ pc' = "mark"

Candidate == job_applications[idx]

DispositionedNew == new_jobs' = Append(new_jobs, Candidate) /\ status_updates' = status_updates

DispositionedUpdate == status_updates' = Append(status_updates, Candidate) /\ new_jobs' = new_jobs

DispositionedNoop == new_jobs' = new_jobs /\ status_updates' = status_updates

RowsWithJobId(rows, job_id) == {i \in DOMAIN rows : rows[i].job_id = job_id}

\* the data rows get_all_records can read by column name
VisibleRows == IF header THEN DOMAIN ledger ELSE {}

FirstRowWithJobId(job_id) ==
    CHOOSE i \in RowsWithJobId(ledger, job_id) :
        \A j \in RowsWithJobId(ledger, job_id) : i <= j

UpdateNote(job) == <<"Status updated to ", job.status, " via email ", job.email_id>>

EndsWith(s, t) == Len(t) <= Len(s) /\ SubSeq(s, Len(s) - Len(t) + 1, Len(s)) = t

\* the ledger holds the record that processing the candidate's message left,
\* and no other row with its Job ID: the row appended for it, or a row whose
\* last status update came from it
ResultRecordInLedger(job) ==
    \E i \in VisibleRows :
        /\ RowsWithJobId(ledger, job.job_id) = {i}
        /\ \/ ledger[i] = job
           \/ EndsWith(ledger[i].notes, UpdateNote(job))

(***************************************************************************)
(* C1: the ledger never holds two rows with the same Job ID.                *)
(***************************************************************************)
C1_UniqueJobIds ==
    \A i, j \in DOMAIN ledger : i # j => ledger[i].job_id # ledger[j].job_id

(***************************************************************************)
(* C2: when the ledger can be read and already holds the record a message   *)
(* left, processing the message again is a no-op: the candidate lands in    *)
(* neither list and no ledger cell changes.                                 *)
(***************************************************************************)
C2_ReprocessIsNoop ==
    [][(ClassifyStep /\ outcome'[idx].lookup # "failed" /\ ResultRecordInLedger(Candidate))
          => (DispositionedNoop /\ ledger' = ledger)]_vars

(***************************************************************************)
(* C3: when update_existing_job_status returns True, the Status cell of the *)
(* first row with that Job ID holds the new status.                         *)
(***************************************************************************)
C3_StatusCellUpdated ==
    [][(ClassifyStep /\ outcome'[idx].update = "called" /\ outcome'[idx].ok)
          => ledger'[FirstRowWithJobId(Candidate.job_id)].status = Candidate.status]_vars

(***************************************************************************)
(* C4: a successful status update changes only the Status, Notes and Last   *)
(* Updated cells of the matched row.                                        *)
(***************************************************************************)
C4_UpdateFrame ==
    [][(ClassifyStep /\ outcome'[idx].update = "called" /\ outcome'[idx].ok)
          => /\ DOMAIN ledger' = DOMAIN ledger
             /\ \A i \in DOMAIN ledger : \A c \in Range(Columns) :
                   ledger'[i][c] # ledger[i][c]
                      => /\ i = FirstRowWithJobId(Candidate.job_id)
                         /\ c \in {"status", "notes", "last_updated"}]_vars


(***************************************************************************)
(* C5 as stated: a candidate is NEW exactly when no ledger row has its Job  *)
(* ID, UPDATE exactly when a row with its Job ID has a different Status,    *)
(* NOOP exactly when a row with its Job ID has an equal Status.             *)
(***************************************************************************)
C5_DispositionByLedger ==
    [][ClassifyStep =>
          LET rows == RowsWithJobId(ledger, Candidate.job_id)
          IN  /\ DispositionedNew <=> rows = {}
              /\ DispositionedUpdate <=>
                    \E i \in rows : ledger[i].status # Candidate.status
              /\ DispositionedNoop <=>
                    \E i \in rows : ledger[i].status = Candidate.status]_vars

(***************************************************************************)
(* C5 as amended: NEW exactly when the lookup returns no row (it failed, or *)
(* no readable row has the Job ID) or the status update of the found row    *)
(* returned False; UPDATE exactly when the first row with the Job ID has a  *)
(* different Status and the update returned True; NOOP exactly when the     *)
(* first row with the Job ID has an equal Status.                           *)
(***************************************************************************)
C5_DispositionByLookup ==
    [][ClassifyStep =>
          LET rows == RowsWithJobId(ledger, Candidate.job_id) \cap VisibleRows
              found == outcome'[idx].lookup # "failed" /\ rows # {}
              differs == found /\
                  ledger[FirstRowWithJobId(Candidate.job_id)].status # Candidate.status
          IN  /\ DispositionedNew <=> (~found \/ (differs /\ ~outcome'[idx].ok))
              /\ DispositionedUpdate <=> (differs /\ outcome'[idx].ok)
              /\ DispositionedNoop <=> (found /\ ~differs)]_vars

\* a Rejected candidate was dispositioned UPDATE against a row read as Applied
C5_Witness ==
    /\ pc = "save"
    /\ \E i \in DOMAIN status_updates :
          /\ status_updates[i].status = "Rejected"
          /\ RowsWithJobId(ledger, status_updates[i].job_id) # {}
          /\ ledger[FirstRowWithJobId(status_updates[i].job_id)].status = "Applied"

(***************************************************************************)
(* C6: new_jobs and status_updates are disjoint subsequences of the         *)
(* candidates in input order, and the pass ends with every candidate        *)
(* visited, so each is in exactly one of new_jobs, status_updates, neither. *)
(***************************************************************************)
RECURSIVE IsSubSeq(_, _)
IsSubSeq(s, t) ==
    IF s = << >> THEN TRUE
    ELSE IF t = << >> THEN FALSE
    ELSE IF Head(s) = Head(t) THEN IsSubSeq(Tail(s), Tail(t))
    ELSE IsSubSeq(s, Tail(t))

Visited == SubSeq(job_applications, 1, idx - 1)

C6_Partition ==
    pc \in {"classify", "save", "mark", "done"} =>
        /\ IsSubSeq(new_jobs, Visited)
        /\ IsSubSeq(status_updates, Visited)
        /\ Range(new_jobs) \cap Range(status_updates) = {}
        /\ Len(outcome) = idx - 1
        /\ pc # "classify" => idx = Len(job_applications) + 1

\* a batch of two ended with one NEW and one UPDATE candidate
C6_Witness ==
    /\ pc = "save"
    /\ Len(job_applications) = 2
    /\ Len(new_jobs) = 1
    /\ Len(status_updates) = 1

(***************************************************************************)
(* C7: a status update never overwrites or truncates notes: the Notes of    *)
(* every row before an iteration is a prefix of its Notes after it, and a   *)
(* change is the update note appended after "; ".                           *)
(***************************************************************************)
C7_NotesAppendOnly ==
    [][ClassifyStep =>
          /\ DOMAIN ledger' = DOMAIN ledger
          /\ \A i \in DOMAIN ledger :
                /\ IsPrefix(ledger[i].notes, ledger'[i].notes)
                /\ ledger'[i].notes # ledger[i].notes =>
                      ledger'[i].notes =
                          IF ledger[i].notes = << >> THEN UpdateNote(Candidate)
                          ELSE ledger[i].notes \o <<"; ">> \o UpdateNote(Candidate)]_vars

\* a row has received two status updates, one after the other
C7_Witness ==
    \E i \in DOMAIN ledger :
        \E k \in 1..Len(ledger[i].notes) :
            /\ k + 10 = Len(ledger[i].notes)
            /\ SubSeq(ledger[i].notes, k + 1, k + 1) = <<"; ">>
            /\ SubSeq(ledger[i].notes, k + 6, k + 6) = <<"; ">>

(***************************************************************************)
(* C8: in one pass a NEW or NOOP candidate causes no cell write, an UPDATE  *)
(* candidate changes cells of one row only, and an append that succeeds     *)
(* adds exactly the rows of the NEW candidates.                             *)
(***************************************************************************)
C8_OneWritePerRecord ==
    [][/\ ClassifyStep =>
            /\ (DispositionedNew \/ DispositionedNoop) => ledger' = ledger
            /\ DispositionedUpdate =>
                  \E i \in DOMAIN ledger :
                      /\ ledger'[i] # ledger[i]
                      /\ \A j \in DOMAIN ledger : j # i => ledger'[j] = ledger[j]
       /\ (SaveStep /\ saved' = "sheet") =>
            (ledger' = ledger \o new_jobs \/ ledger' = new_jobs)]_vars

(***************************************************************************)
(* C9: a candidate whose ledger lookup fails is dispositioned NEW, no cell  *)
(* is written for it, and the pass goes on to the next candidate.           *)
(***************************************************************************)
C9_LookupFailureIsNew ==
    [][(ClassifyStep /\ outcome'[idx].lookup = "failed") =>
          /\ DispositionedNew
          /\ ledger' = ledger
          /\ pc' = IF idx < Len(job_applications) THEN "classify" ELSE "save"]_vars

\* the lookup of a candidate raised although a readable row has its Job ID,
\* and the candidate is in new_jobs
C9_Witness ==
    /\ pc = "save"
    /\ spreadsheet_id # 0 /\ gspread_client /\ header
    /\ \E i \in DOMAIN job_applications :
          /\ outcome[i].lookup = "failed"
          /\ RowsWithJobId(ledger, job_applications[i].job_id) # {}
          /\ job_applications[i] \in Range(new_jobs)

(***************************************************************************)
(* C10: at the end of a run every message of the batch whose own fetch and  *)
(* parse succeeded has been parsed and dispositioned, whatever happened to  *)
(* the other messages, and every NEW candidate is in the ledger when the    *)
(* append succeeded and in the fallback file when that was written instead. *)
(***************************************************************************)
C10_FailuresAreIsolated ==
    pc = "done" =>
        /\ EmailIds(job_applications) = {batch[i].id : i \in {j \in DOMAIN batch : batch[j].ok}}
        /\ Len(job_applications) = Cardinality({j \in DOMAIN batch : batch[j].ok})
        /\ Len(outcome) = Len(job_applications)
        /\ \A i \in DOMAIN job_applications :
              \/ job_applications[i] \in Range(new_jobs)
              \/ job_applications[i] \in Range(status_updates)
              \/ outcome[i].lookup = "found" /\ outcome[i].update = "skipped"
        /\ new_jobs # << >> => saved # "none"
        /\ saved = "sheet" => Range(new_jobs) \subseteq Range(ledger)
        /\ saved = "csv" => Range(new_jobs) \subseteq Range(csv_file)

\* the first message of a batch failed to fetch or parse and a later one
\* was parsed, dispositioned NEW and appended to the ledger
C10_Witness ==
    /\ pc = "done"
    /\ Len(batch) = 2
    /\ ~batch[1].ok /\ batch[2].ok
    /\ saved = "sheet"
    /\ \E j \in Range(new_jobs) : j.email_id = batch[2].id /\ j \in Range(ledger)

(***************************************************************************)
(* C11: when update_spreadsheet(new_jobs) does not append to the worksheet, *)
(* it writes every new job to the fallback file, one row per job in input   *)
(* order and with the worksheet's columns in the worksheet's order, and it  *)
(* returns True exactly when that write succeeded (saved is "csv"), False   *)
(* otherwise (saved is "lost"); no new job reaches the worksheet.           *)
(***************************************************************************)
sheet_row(job) == [i \in DOMAIN Columns |-> job[Columns[i]]]

csv_row(job) == [i \in DOMAIN CsvColumns |-> job[CsvColumns[i]]]

C11_FallbackToCsv ==
    [][(SaveStep /\ new_jobs # << >> /\ saved' # "sheet") =>
          /\ saved' \in {"csv", "lost"}
          /\ saved' = "csv" =>
                /\ Len(csv_file') = Len(csv_file) + Len(new_jobs)
                /\ SubSeq(csv_file', 1, Len(csv_file)) = csv_file
                /\ \A i \in DOMAIN new_jobs :
                      csv_row(csv_file'[Len(csv_file) + i]) = sheet_row(new_jobs[i])
          /\ \A i \in DOMAIN ledger' : ledger'[i] \notin Range(new_jobs)
                                          \/ ledger'[i] \in Range(ledger)]_vars

\* a batch of two new jobs was written to the fallback file
C11_Witness ==
    /\ pc = "mark"
    /\ saved = "csv"
    /\ Len(new_jobs) = 2
    /\ csv_file = new_jobs

(***************************************************************************)
(* C12: no step removes a record from the ledger the tracker works on: the  *)
(* Job IDs that find_existing_job can find in the worksheet of the          *)
(* configured spreadsheet after a step include those it could find before.  *)
(***************************************************************************)
VisibleJobIds == {ledger[i].job_id : i \in VisibleRows}

C12_NoRecordRemoved ==
    [][VisibleJobIds \subseteq VisibleJobIds']_vars

(***************************************************************************)
(* C13: saving imported rows adds a row only for an import row whose Job ID *)
(* is not yet recorded: no row that an import adds, to the worksheet or,    *)
(* when save_to_spreadsheet falls back, to the fallback file, repeats the   *)
(* Job ID of a row before it.                                               *)
(***************************************************************************)
ImportStep == imports' = imports + 1

NoRepeatedJobId(old, new) ==
    \A k \in (Len(old) + 1)..Len(new) :
        \A j \in 1..(k - 1) : new[j].job_id # new[k].job_id

C13_ImportAddsOnlyUnseen ==
    [][ImportStep => /\ NoRepeatedJobId(ledger, ledger')
                     /\ NoRepeatedJobId(csv_file, csv_file')]_vars

MarkStep == pc = "mark" /\ pc' = "done"

C23_MarkedOnlyIfPersisted ==
    [][MarkStep =>
          \A m \in processed' \ processed :
              \/ m \in EmailIds(status_updates)
              \/ m \in EmailIds(new_jobs) /\ saved \in {"sheet", "csv"}]_vars

(***************************************************************************)
(* C24: update_existing_job_status is all-or-nothing: when it returns False *)
(* the candidate goes to new_jobs and every row of the ledger is as it was  *)
(* before the call.                                                         *)
(***************************************************************************)
C24_FailedUpdateWritesNothing ==
    [][(ClassifyStep /\ outcome'[idx].update = "called" /\ ~outcome'[idx].ok)
          => /\ DispositionedNew
             /\ \A i \in DOMAIN ledger : ledger'[i] = ledger[i]]_vars

(***************************************************************************)
(* C25: every message whose candidate was dispositioned in a run is marked  *)
(* processed by the end of the run, the candidates without a status change  *)
(* included: when mark_email_processed fails for no message, every message  *)
(* of job_applications is in processed after the marking loop.              *)
(***************************************************************************)
C25_EveryDispositionedIsMarked ==
    [][(MarkStep /\ EmailIds(new_jobs \o status_updates) \subseteq processed')
          => EmailIds(job_applications) \subseteq processed']_vars

(***************************************************************************)
(* C26: two candidates of one batch with the same Job ID, which no row of   *)
(* the ledger has when the pass starts, are both in new_jobs after the      *)
(* pass, and update_spreadsheet appends both: the worksheet, or the         *)
(* fallback file when it falls back, ends with the two rows.                *)
(***************************************************************************)
LastTwo(rows) == IF Len(rows) < 2 THEN rows ELSE SubSeq(rows, Len(rows) - 1, Len(rows))

SameNewKey ==
    /\ Len(job_applications) = 2
    /\ job_applications[1].job_id = job_applications[2].job_id
    /\ RowsWithJobId(ledger, job_applications[1].job_id) = {}

C26_SameNewKeyBothAppended ==
    [][(SaveStep /\ SameNewKey)
          => /\ new_jobs = job_applications
             /\ status_updates = << >>
             /\ saved' = "sheet" => LastTwo(ledger') = job_applications
             /\ saved' = "csv" => LastTwo(csv_file') = job_applications]_vars

C26_Witness ==
    /\ pc = "mark"
    /\ Len(job_applications) = 2
    /\ job_applications[1].job_id = job_applications[2].job_id
    /\ new_jobs = job_applications
    /\ saved = "sheet"
    /\ ledger = job_applications

(***************************************************************************)
(* C27: during one pass the ledger is not written until every candidate of  *)
(* the batch has been classified, so that all candidates are matched        *)
(* against the content the ledger had when the pass started: an iteration   *)
(* of the loop that is followed by another one leaves the ledger unchanged. *)
(***************************************************************************)
C27_LedgerFrozenDuringPass ==
    [][(ClassifyStep /\ idx < Len(job_applications)) => ledger' = ledger]_vars

(***************************************************************************)
(* Text.  A string is the sequence of its characters, so that lower(),      *)
(* title(), split() and the substring test "in" are computed on it.         *)
(***************************************************************************)
UpperCase == <<"A", "B", "C", "D", "E", "F", "G", "H", "I", "J", "K", "L", "M",
               "N", "O", "P", "Q", "R", "S", "T", "U", "V", "W", "X", "Y", "Z">>

LowerCase == <<"a", "b", "c", "d", "e", "f", "g", "h", "i", "j", "k", "l", "m",
               "n", "o", "p", "q", "r", "s", "t", "u", "v", "w", "x", "y", "z">>

\* str.lower() of one character
lower_char(c) ==
    IF \E i \in DOMAIN UpperCase : UpperCase[i] = c
    THEN LowerCase[CHOOSE i \in DOMAIN UpperCase : UpperCase[i] = c]
    ELSE c

\* str.upper() of one character
upper_char(c) ==
    IF \E i \in DOMAIN LowerCase : LowerCase[i] = c
    THEN UpperCase[CHOOSE i \in DOMAIN LowerCase : LowerCase[i] = c]
    ELSE c

\* str.lower()
lower(s) == [i \in DOMAIN s |-> lower_char(s[i])]

\* str.upper()
upper(s) == [i \in DOMAIN s |-> upper_char(s[i])]

IsLetter(c) == \E i \in DOMAIN UpperCase : UpperCase[i] = c \/ LowerCase[i] = c

\* str.title(): a letter is upper case after a character that is no letter
\* and at the start, lower case after a letter
title(s) ==
    [i \in DOMAIN s |-> IF i > 1 /\ IsLetter(s[i - 1]) THEN lower_char(s[i])
                        ELSE upper_char(s[i])]

\* the substring test: sub in s
Occurs(sub, s) ==
    \E i \in 1..(Len(s) - Len(sub) + 1) : SubSeq(s, i, i + Len(sub) - 1) = sub

\* any(keyword in text for keyword in keywords)
AnyOccurs(keywords, text) == \E k \in DOMAIN keywords : Occurs(keywords[k], text)

(***************************************************************************)
(* The keywords of the status tables.                                       *)
(***************************************************************************)
K_rejected == <<"r", "e", "j", "e", "c", "t", "e", "d">>

K_not_selected == <<"n", "o", "t", " ", "s", "e", "l", "e", "c", "t", "e", "d">>

K_unfortunately == <<"u", "n", "f", "o", "r", "t", "u", "n", "a", "t", "e", "l", "y">>

K_regret == <<"r", "e", "g", "r", "e", "t">>

K_interview == <<"i", "n", "t", "e", "r", "v", "i", "e", "w">>

K_schedule == <<"s", "c", "h", "e", "d", "u", "l", "e">>

K_meeting == <<"m", "e", "e", "t", "i", "n", "g">>

K_call == <<"c", "a", "l", "l">>

K_accepted == <<"a", "c", "c", "e", "p", "t", "e", "d">>

K_congratulations == <<"c", "o", "n", "g", "r", "a", "t", "u", "l", "a", "t", "i", "o", "n",
    "s">>

K_welcome == <<"w", "e", "l", "c", "o", "m", "e">>

K_offer == <<"o", "f", "f", "e", "r">>

K_withdrawn == <<"w", "i", "t", "h", "d", "r", "a", "w", "n">>

K_cancelled == <<"c", "a", "n", "c", "e", "l", "l", "e", "d">>

K_no_longer_interested == <<"n", "o", " ", "l", "o", "n", "g", "e", "r", " ", "i", "n", "t", "e",
    "r", "e", "s", "t", "e", "d">>

S_rejected == <<"r", "e", "j", "e", "c", "t", "e", "d">>

S_Rejected == <<"R", "e", "j", "e", "c", "t", "e", "d">>

S_interview == <<"i", "n", "t", "e", "r", "v", "i", "e", "w">>

S_Interview == <<"I", "n", "t", "e", "r", "v", "i", "e", "w">>

S_accepted == <<"a", "c", "c", "e", "p", "t", "e", "d">>

S_Accepted == <<"A", "c", "c", "e", "p", "t", "e", "d">>

S_withdrawn == <<"w", "i", "t", "h", "d", "r", "a", "w", "n">>

S_Withdrawn == <<"W", "i", "t", "h", "d", "r", "a", "w", "n">>

S_applied == <<"a", "p", "p", "l", "i", "e", "d">>

S_Applied == <<"A", "p", "p", "l", "i", "e", "d">>

\* determine_status: status_keywords, in the order of the dict
status_keywords ==
    <<[status |-> S_rejected,
       keywords |-> <<K_rejected, K_not_selected, K_unfortunately, K_regret>>],
      [status |-> S_interview,
       keywords |-> <<K_interview, K_schedule, K_meeting, K_call>>],
      [status |-> S_accepted,
       keywords |-> <<K_accepted, K_congratulations, K_welcome, K_offer>>],
      [status |-> S_withdrawn,
       keywords |-> <<K_withdrawn, K_cancelled, K_no_longer_interested>>]>>

\* load_config: default_config['status_mapping']
status_mapping ==
    <<[key |-> S_applied, value |-> S_Applied],
      [key |-> S_interview, value |-> S_Interview],
      [key |-> S_rejected, value |-> S_Rejected],
      [key |-> S_accepted, value |-> S_Accepted],
      [key |-> S_withdrawn, value |-> S_Withdrawn]>>

\* self.config['status_mapping'].get(status, status.title())
status_mapping_get(status) ==
    IF \E i \in DOMAIN status_mapping : status_mapping[i].key = status
    THEN status_mapping[CHOOSE i \in DOMAIN status_mapping :
                            status_mapping[i].key = status].value
    ELSE title(status)

\* faulty variant of FirstEntry: the last matching entry wins
LastEntry(table, text) ==
    IF \E i \in DOMAIN table : AnyOccurs(table[i].keywords, text)
    THEN CHOOSE i \in DOMAIN table :
            /\ AnyOccurs(table[i].keywords, text)
            /\ \A j \in (i + 1)..Len(table) : ~AnyOccurs(table[j].keywords, text)
    ELSE 0

\* the loop over a status table: the first entry, in table order, one of
\* whose keywords occurs in text; 0 when there is none
FirstEntry(table, text) ==
    IF \E i \in DOMAIN table : AnyOccurs(table[i].keywords, text)
    THEN CHOOSE i \in DOMAIN table :
            /\ AnyOccurs(table[i].keywords, text)
            /\ \A j \in 1..(i - 1) : ~AnyOccurs(table[j].keywords, text)
    ELSE 0

\* f"{subject} {body}"
SubjectAndBody(subject, body) == subject \o <<" ">> \o body

\* JobTracker.determine_status
determine_status(subject, body) ==
    LET text == lower(SubjectAndBody(subject, body))
        i == FirstEntry(status_keywords, text)
    IN  IF i # 0 THEN status_mapping_get(status_keywords[i].status) ELSE S_Applied

\* GeminiEmailParser._determine_status_basic: status_keywords
status_keywords_gemini ==
    <<[status |-> S_rejected,
       keywords |-> <<K_rejected, K_not_selected, K_unfortunately, K_regret>>],
      [status |-> S_interview,
       keywords |-> <<K_interview, K_schedule, K_meeting, K_call>>],
      [status |-> S_accepted,
       keywords |-> <<K_accepted, K_congratulations, K_welcome, K_offer>>],
      [status |-> S_withdrawn,
       keywords |-> <<K_withdrawn, K_cancelled, K_no_longer_interested>>]>>

\* GeminiEmailParser._determine_status_basic
determine_status_basic(subject, body) ==
    LET text == lower(SubjectAndBody(subject, body))
        i == FirstEntry(status_keywords_gemini, text)
    IN  IF i # 0 THEN title(status_keywords_gemini[i].status) ELSE S_Applied

\* JobImportTracker._extract_status_from_email: status_keywords
status_keywords_import ==
    <<[status |-> S_rejected,
       keywords |-> <<K_rejected, K_not_selected, K_unfortunately, K_regret>>],
      [status |-> S_interview,
       keywords |-> <<K_interview, K_schedule, K_meeting, K_call>>],
      [status |-> S_accepted,
       keywords |-> <<K_accepted, K_congratulations, K_welcome, K_offer>>],
      [status |-> S_withdrawn,
       keywords |-> <<K_withdrawn, K_cancelled, K_no_longer_interested>>]>>

\* JobImportTracker._extract_status_from_email: new_status
extract_status_from_text(subject, body) ==
    LET text == SubjectAndBody(lower(subject), lower(body))
        i == FirstEntry(status_keywords_import, text)
    IN  IF i # 0 THEN title(status_keywords_import[i].status) ELSE S_Applied

\* ExcelJobImporter._basic_status_extraction: status_keywords
status_keywords_excel ==
    <<[status |-> S_rejected,
       keywords |-> <<K_rejected, K_not_selected, K_unfortunately, K_regret>>],
      [status |-> S_interview,
       keywords |-> <<K_interview, K_schedule, K_meeting, K_call>>],
      [status |-> S_accepted,
       keywords |-> <<K_accepted, K_congratulations, K_welcome, K_offer>>],
      [status |-> S_withdrawn,
       keywords |-> <<K_withdrawn, K_cancelled, K_no_longer_interested>>]>>

\* ExcelJobImporter._basic_status_extraction: new_status
basic_status_extraction(subject, body) ==
    LET text == SubjectAndBody(lower(subject), lower(body))
        i == FirstEntry(status_keywords_excel, text)
    IN  IF i # 0 THEN title(status_keywords_excel[i].status) ELSE S_Applied

(***************************************************************************)
(* Subjects and bodies of messages.                                         *)
(***************************************************************************)
Subjects ==
    {<<"A", "p", "p", "l", "i", "c", "a", "t", "i", "o", "n", " ", "r", "e",
      "c", "e", "i", "v", "e", "d">>,
     <<"I", "n", "t", "e", "r", "v", "i", "e", "w", " ", "i", "n", "v", "i",
      "t", "a", "t", "i", "o", "n">>,
     <<"U", "n", "f", "o", "r", "t", "u", "n", "a", "t", "e", "l", "y", " ",
      "w", "e", " ", "r", "e", "g", "r", "e", "t">>,
     <<"Y", "o", "u", "r", " ", "O", "F", "F", "E", "R">>,
     <<"R", "e", "c", "a", "l", "l", " ", "n", "o", "t", "i", "c", "e">>,
     <<"A", "p", "p", "l", "i", "c", "a", "t", "i", "o", "n", " ", "W", "i",
      "t", "h", "d", "r", "a", "w", "n">>,
     <<"N", "O", "T", " ", "S", "E", "L", "E", "C", "T", "E", "D">>,
     <<"R", "e", "j", "e", "c", "t", "e", "d", " ", "a", "f", "t", "e", "r",
      " ", "i", "n", "t", "e", "r", "v", "i", "e", "w">>,
     << >>}

Bodies ==
    {<< >>,
     <<"w", "e", " ", "w", "i", "l", "l", " ", "s", "c", "h", "e", "d", "u",
      "l", "e", " ", "a", " ", "c", "a", "l", "l">>,
     <<"Y", "o", "u", " ", "w", "e", "r", "e", " ", "n", "o", "t", " ", "s",
      "e", "l", "e", "c", "t", "e", "d">>,
     <<"W", "e", "l", "c", "o", "m", "e", " ", "a", "b", "o", "a", "r", "d">>,
     <<"t", "h", "a", "n", "k", "s">>}

(***************************************************************************)
(* Application of the four status classifiers to one subject and body.      *)
(***************************************************************************)
trackerVars == <<gmail_service, sheets_service, gspread_client, spreadsheet_id,
                 sheets_created, header, ledger, csv_file, csv_writes, imports,
                 inbox, processed, runs, pc, job_applications, idx, new_jobs,
                 status_updates, outcome, batch, saved, imported_jobs, updates>>

DetermineStatus(subject, body) ==
    /\ call = NoCall
    /\ call' = [fn |-> "determine_status",
                subject |-> subject, body |-> body,
                result |-> determine_status(subject, body),
                gemini |-> determine_status_basic(subject, body),
                import |-> extract_status_from_text(subject, body),
                excel |-> basic_status_extraction(subject, body)]
    /\ UNCHANGED trackerVars

(***************************************************************************)
(* C15: status classification is total and follows the table order          *)
(* rejected, interview, accepted, withdrawn over the lower-cased text of    *)
(* subject and body: Rejected exactly when a rejected keyword occurs,       *)
(* Interview exactly when none does and an interview keyword occurs, and so *)
(* on, Applied exactly when no keyword occurs; the four implementations     *)
(* return the same status.                                                  *)
(***************************************************************************)
StatusOrder == <<S_Rejected, S_Interview, S_Accepted, S_Withdrawn>>

C15_ClassifierFollowsTableOrder ==
    call.fn = "determine_status" =>
        LET text == lower(SubjectAndBody(call.subject, call.body))
            hit(i) == AnyOccurs(status_keywords[i].keywords, text)
        IN  /\ call.result \in Range(StatusOrder) \cup {S_Applied}
            /\ \A i \in DOMAIN StatusOrder :
                  call.result = StatusOrder[i] <=>
                      (hit(i) /\ \A j \in 1..(i - 1) : ~hit(j))
            /\ call.result = S_Applied <=> \A i \in DOMAIN StatusOrder : ~hit(i)
            /\ call.gemini = call.result
            /\ call.import = call.result
            /\ call.excel = call.result

\* a text with both a rejected and an interview keyword was classified
C15_Witness ==
    /\ call.fn = "determine_status"
    /\ Occurs(K_rejected, lower(call.subject))
    /\ Occurs(K_interview, lower(call.subject))
    /\ call.result = S_Rejected


(***************************************************************************)
(* split(), strip() and indexing, on strings as sequences of characters.    *)
(***************************************************************************)
\* the place of the first occurrence of sub in s, 0 when there is none
FirstIndex(sub, s) ==
    IF Occurs(sub, s)
    THEN CHOOSE i \in 1..(Len(s) - Len(sub) + 1) :
            /\ SubSeq(s, i, i + Len(sub) - 1) = sub
            /\ \A j \in 1..(i - 1) : SubSeq(s, j, j + Len(sub) - 1) # sub
    ELSE 0

\* s.split(sep)[0]
Before(s, sep) ==
    IF FirstIndex(sep, s) = 0 THEN s ELSE SubSeq(s, 1, FirstIndex(sep, s) - 1)

\* what follows the first occurrence of sep in s, for a sep that occurs
After(s, sep) == SubSeq(s, FirstIndex(sep, s) + Len(sep), Len(s))

\* s.split(sep)[1], for a sep that occurs in s
split_1(s, sep) == Before(After(s, sep), sep)

\* str.lstrip()
RECURSIVE lstrip(_)
lstrip(s) == IF s # << >> /\ Head(s) = " " THEN lstrip(Tail(s)) ELSE s

\* str.strip()
RECURSIVE strip(_)
strip(s) ==
    IF s # << >> /\ Head(s) = " " THEN strip(Tail(s))
    ELSE IF s # << >> /\ s[Len(s)] = " " THEN strip(SubSeq(s, 1, Len(s) - 1))
    ELSE s

\* s.split(): the words of s
RECURSIVE Words(_)
Words(s) ==
    LET t == lstrip(s)
        w == Before(t, <<" ">>)
    IN  IF t = << >> THEN << >>
        ELSE <<w>> \o Words(SubSeq(t, Len(w) + 1, Len(t)))

\* what a call gives: a value, or an exception
Returns(v) == [raised |-> FALSE, value |-> v]

Raises == [raised |-> TRUE]

(***************************************************************************)
(* Company extraction: JobTracker.extract_company and the two fallbacks of  *)
(* GeminiEmailParser.                                                       *)
(***************************************************************************)
UnknownCompany == <<"U", "n", "k", "n", "o", "w", "n", " ", "C", "o", "m", "p", "a", "n",
      "y">>

\* extract_company: the domains that are not taken as a company
generic_domains ==
    {<<"g", "m", "a", "i", "l">>,
     <<"y", "a", "h", "o", "o">>,
     <<"h", "o", "t", "m", "a", "i", "l">>,
     <<"o", "u", "t", "l", "o", "o", "k">>}

\* extract_company: common_indicators
common_indicators ==
    <<<<"A", "T", " ">>,
      <<"F", "O", "R", " ">>,
      <<"W", "I", "T", "H", " ">>,
      <<"V", "I", "A", " ">>>>

\* _extract_company_fallback: the domains that are not taken as a company
generic_domains_fallback ==
    {<<"g", "m", "a", "i", "l">>,
     <<"y", "a", "h", "o", "o">>,
     <<"h", "o", "t", "m", "a", "i", "l">>,
     <<"o", "u", "t", "l", "o", "o", "k">>,
     <<"a", "o", "l">>}

\* _extract_company_fallback: common_indicators
common_indicators_fallback ==
    <<<<"A", "T", " ">>,
      <<"F", "O", "R", " ">>,
      <<"W", "I", "T", "H", " ">>,
      <<"V", "I", "A", " ">>,
      <<"F", "R", "O", "M", " ">>>>

\* from_email.split('@')[1].split('.')[0]
domain_of(from_email) == Before(split_1(from_email, <<"@">>), <<".">>)

\* the loop over the indicators of the upper-cased subject: the first
\* indicator that occurs decides; parts[1].split()[0] raises IndexError when
\* parts[1] holds no word
company_from_subject(subject, indicators) ==
    LET subject_upper == upper(subject)
        hits == {i \in DOMAIN indicators : Occurs(indicators[i], subject_upper)}
    IN  IF hits = {} THEN Returns(UnknownCompany)
        ELSE LET i == CHOOSE h \in hits : \A g \in hits : h <= g
                 words == Words(split_1(subject_upper, indicators[i]))
             IN  IF words = << >> THEN Raises ELSE Returns(title(words[1]))

\* JobTracker.extract_company
extract_company(from_email, subject) ==
    IF Occurs(<<"@">>, from_email) /\ domain_of(from_email) \notin generic_domains
    THEN Returns(title(domain_of(from_email)))
    ELSE company_from_subject(subject, common_indicators)

\* GeminiEmailParser._extract_company_fallback
extract_company_fallback(from_email, subject) ==
    IF Occurs(<<"@">>, from_email) /\ domain_of(from_email) \notin generic_domains_fallback
    THEN Returns(title(domain_of(from_email)))
    ELSE company_from_subject(subject, common_indicators_fallback)

\* GeminiEmailParser._extract_company_basic
extract_company_basic(from_email, subject) ==
    IF Occurs(<<"@">>, from_email) /\ domain_of(from_email) \notin generic_domains
    THEN Returns(title(domain_of(from_email)))
    ELSE company_from_subject(subject, common_indicators)

\* From headers
FromAddresses ==
    {<<"j", "o", "b", "s", "@", "a", "c", "m", "e", ".", "c", "o", "m">>,
     <<"A", "c", "m", "e", " ", "C", "a", "r", "e", "e", "r", "s", " ", "<",
      "j", "o", "b", "s", "@", "a", "c", "m", "e", ".", "c", "o", "m",
      ">">>,
     <<"m", "e", "@", "g", "m", "a", "i", "l", ".", "c", "o", "m">>,
     <<"f", "r", "i", "e", "n", "d", "@", "a", "o", "l", ".", "c", "o", "m">>,
     <<"r", "e", "c", "r", "u", "i", "t", "e", "r", "@">>,
     <<"n", "o", "-", "r", "e", "p", "l", "y">>}

\* subjects with and without a company marker
CompanySubjects ==
    {<<"A", "p", "p", "l", "i", "c", "a", "t", "i", "o", "n", " ", "a", "t",
      " ", "A", "c", "m", "e">>,
     <<"C", "h", "a", "t", " ", "a", "t", " ", "A", "c", "m", "e">>,
     <<"T", "h", "a", "n", "k", "s", " ", "f", "o", "r", " ">>,
     <<"O", "f", "f", "e", "r", " ", "f", "r", "o", "m", " ", "I", "n", "i",
      "t", "e", "c", "h">>,
     <<"H", "e", "l", "l", "o">>,
     << >>}

ExtractCompany(from_email, subject) ==
    /\ call = NoCall
    /\ call' = [fn |-> "extract_company",
                from_email |-> from_email, subject |-> subject,
                result |-> extract_company(from_email, subject),
                fallback |-> extract_company_fallback(from_email, subject),
                basic |-> extract_company_basic(from_email, subject)]
    /\ UNCHANGED trackerVars

(***************************************************************************)
(* C19: company extraction never raises and never gives an empty company,  *)
(* in extract_company and in both fallbacks of the semantic parser.         *)
(***************************************************************************)
C19_CompanyNeverFails ==
    call.fn = "extract_company" =>
        \A r \in {call.result, call.fallback, call.basic} :
            ~r.raised /\ r.value # << >>


(***************************************************************************)
(* Job IDs: JobTracker.generate_job_id and extract_position_keywords.       *)
(***************************************************************************)
\* extract_position_keywords: role_keywords
role_keywords ==
    <<<<"b", "a", "c", "k", "e", "n", "d">>,
      <<"f", "r", "o", "n", "t", "e", "n", "d">>,
      <<"f", "u", "l", "l", "s", "t", "a", "c", "k">>,
      <<"f", "u", "l", "l", "-", "s", "t", "a", "c", "k">>,
      <<"f", "u", "l", "l", " ", "s", "t", "a", "c", "k">>,
      <<"m", "a", "c", "h", "i", "n", "e", " ", "l", "e", "a", "r", "n", "i",
      "n", "g">>,
      <<"m", "l">>,
      <<"a", "i">>,
      <<"d", "a", "t", "a">>,
      <<"i", "n", "f", "r", "a", "s", "t", "r", "u", "c", "t", "u", "r", "e">>,
      <<"m", "o", "b", "i", "l", "e">>,
      <<"i", "o", "s">>,
      <<"a", "n", "d", "r", "o", "i", "d">>,
      <<"w", "e", "b">>,
      <<"c", "l", "o", "u", "d">>,
      <<"d", "e", "v", "o", "p", "s">>,
      <<"s", "e", "c", "u", "r", "i", "t", "y">>,
      <<"e", "m", "b", "e", "d", "d", "e", "d">>,
      <<"s", "y", "s", "t", "e", "m", "s">>,
      <<"p", "l", "a", "t", "f", "o", "r", "m">>,
      <<"a", "p", "i">>,
      <<"s", "e", "n", "i", "o", "r">>,
      <<"j", "u", "n", "i", "o", "r">>,
      <<"l", "e", "a", "d">>,
      <<"p", "r", "i", "n", "c", "i", "p", "a", "l">>,
      <<"s", "t", "a", "f", "f">>,
      <<"r", "e", "m", "o", "t", "e">>,
      <<"o", "n", "s", "i", "t", "e">>,
      <<"h", "y", "b", "r", "i", "d">>,
      <<"c", "o", "n", "t", "r", "a", "c", "t">>,
      <<"i", "n", "t", "e", "r", "n">>>>

Digits == {"0", "1", "2", "3", "4", "5", "6", "7", "8", "9"}

\* [a-zA-Z0-9]
IsAlnum(c) == IsLetter(c) \/ c \in Digits

\* re.sub(r'[^a-zA-Z0-9]', '', s)
clean(s) == SelectSeq(s, IsAlnum)

\* s[:n]
Truncate(s, n) == SubSeq(s, 1, IF Len(s) < n THEN Len(s) ELSE n)

\* found_keywords: the role keywords that occur in the lower-cased subject,
\* in the order of role_keywords
found_keywords(email_subject) ==
    SelectSeq(role_keywords, LAMBDA k : Occurs(k, lower(email_subject)))

\* faulty variant of extract_position_keywords: the first and the last found
extract_position_keywords_last(email_subject) ==
    LET found == found_keywords(email_subject)
    IN  IF found = << >> THEN << >>
        ELSE IF Len(found) = 1 THEN found[1]
        ELSE found[1] \o <<"_">> \o found[Len(found)]

\* JobTracker.extract_position_keywords: the first two found, joined by '_'
extract_position_keywords(email_subject) ==
    LET found == found_keywords(email_subject)
    IN  IF found = << >> THEN << >>
        ELSE IF Len(found) = 1 THEN found[1]
        ELSE found[1] \o <<"_">> \o found[2]

\* faulty variant of date_part: the time of day is kept
date_part_with_time(application_date) == application_date

\* application_date.split('T')[0]
date_part(application_date) == Before(application_date, <<"T">>)

\* the string that is hashed
normalized(company, position, subject_keywords, application_date) ==
    lower(strip(company)) \o <<"|">> \o lower(strip(position))
    \o (IF subject_keywords # << >> THEN <<"|">> \o subject_keywords ELSE << >>)
    \o (IF application_date # << >>
        THEN <<"|">> \o date_part(application_date) ELSE << >>)

\* faulty variant of md5_8: every text has the same digest
md5_8_constant(text) == <<"#">>

\* hashlib.md5(text.encode()).hexdigest()[:8].  The digest is written as the
\* hashed text behind a mark no prefix of a Job ID contains, so that two
\* texts have the same digest exactly when they are equal (collisions aside).
md5_8(text) == <<"#">> \o text

\* JobTracker.generate_job_id
generate_job_id(company, position, email_subject, application_date) ==
    LET subject_keywords == extract_position_keywords(email_subject)
        job_hash == md5_8(normalized(company, position, subject_keywords,
                                     application_date))
        clean_company == Truncate(clean(company), 10)
        clean_position == Truncate(clean(position), 15)
        clean_keywords == Truncate(clean(subject_keywords), 10)
    IN  IF subject_keywords # << >>
        THEN clean_company \o <<"_">> \o clean_position \o <<"_">>
             \o clean_keywords \o <<"_">> \o job_hash
        ELSE clean_company \o <<"_">> \o clean_position \o <<"_">> \o job_hash

IdCompanies ==
    {<<"A", "c", "m", "e">>,
     <<"A", "c", "m", "e", " ">>,
     <<"I", "n", "i", "t", "e", "c", "h">>}

IdPositions ==
    {<<"E", "n", "g", "i", "n", "e", "e", "r">>,
     <<"E", "n", "g", "i", "n", "e", "e", "r", " ">>,
     <<"e", "n", "g", "i", "n", "e", "e", "r">>,
     <<"A", "n", "a", "l", "y", "s", "t">>}

IdSubjects ==
    {<< >>,
     <<"A", "p", "p", "l", "i", "c", "a", "t", "i", "o", "n", " ", "r", "e",
      "c", "e", "i", "v", "e", "d">>,
     <<"S", "e", "n", "i", "o", "r", " ", "B", "a", "c", "k", "e", "n", "d",
      " ", "E", "n", "g", "i", "n", "e", "e", "r">>,
     <<"R", "e", "m", "o", "t", "e", " ", "B", "a", "c", "k", "e", "n", "d",
      " ", "S", "e", "n", "i", "o", "r", " ", "r", "o", "l", "e">>,
     <<"F", "r", "o", "n", "t", "e", "n", "d", " ", "r", "o", "l", "e">>}

IdDates ==
    {<<"2", "0", "2", "4", "-", "0", "1", "-", "1", "5", "T", "0", "9", ":",
      "3", "0", ":", "0", "0">>,
     <<"2", "0", "2", "4", "-", "0", "1", "-", "1", "5", "T", "1", "7", ":",
      "4", "5", ":", "0", "0">>,
     <<"2", "0", "2", "4", "-", "0", "1", "-", "1", "5">>,
     <<"2", "0", "2", "4", "-", "0", "1", "-", "1", "6", "T", "0", "9", ":",
      "3", "0", ":", "0", "0">>,
     << >>}

IdInputs ==
    [company : IdCompanies, position : IdPositions,
     email_subject : IdSubjects, application_date : IdDates]

\* one call of generate_job_id, with what it returned
JobIdCall(in) ==
    [company |-> in.company, position |-> in.position,
     email_subject |-> in.email_subject,
     application_date |-> in.application_date,
     subject_keywords |-> extract_position_keywords(in.email_subject),
     result |-> generate_job_id(in.company, in.position, in.email_subject,
                                in.application_date)]

\* the calls of generate_job_id on the inputs
JobIdCalls == {JobIdCall(in) : in \in IdInputs}

\* generate_job_id is called twice
GenerateJobId ==
    /\ call = NoCall
    /\ \E first \in JobIdCalls, second \in JobIdCalls :
          call' = [fn |-> "generate_job_id",
                   first |-> first, second |-> second]
    /\ UNCHANGED trackerVars

\* the call is over
Return ==
    /\ call # NoCall
    /\ call' = NoCall
    /\ UNCHANGED trackerVars

\* the date-only part of a date: the text before the time separator, and
\* nothing for no date
DateOnly(d) == IF d = << >> THEN << >> ELSE <<Before(d, <<"T">>)>>

\* the four values of a call that the Job ID is made of
KeyValues(c) ==
    <<c.company, c.position, c.subject_keywords,
      DateOnly(c.application_date)>>

(***************************************************************************)
(* C17: two calls of generate_job_id that agree on the company, the         *)
(* position, the keywords extracted from the subject and the date-only part *)
(* of the date return the same Job ID, whatever the time of day and the     *)
(* rest of the subject.                                                     *)
(***************************************************************************)
C17_JobIdIsFunctionOfKeyValues ==
    call.fn = "generate_job_id" =>
        (KeyValues(call.first) = KeyValues(call.second)
            => call.first.result = call.second.result)

\* two calls with different times of day and different subjects that agree
\* on the four values, keywords included, and return the same Job ID
C17_Witness ==
    /\ call.fn = "generate_job_id"
    /\ call.first.application_date # call.second.application_date
    /\ call.first.application_date # << >>
    /\ call.first.email_subject # call.second.email_subject
    /\ call.first.subject_keywords # << >>
    /\ KeyValues(call.first) = KeyValues(call.second)
    /\ call.first.result = call.second.result

(***************************************************************************)
(* Position extraction: JobTracker.extract_position and the two fallbacks   *)
(* of GeminiEmailParser.                                                    *)
(***************************************************************************)
UnknownPosition == <<"U", "n", "k", "n", "o", "w", "n", " ", "P", "o", "s", "i", "t", "i", "o", "n">>

\* extract_position and _extract_position_basic: position_indicators
position_indicators ==
    <<<<"s", "o", "f", "t", "w", "a", "r", "e", " ", "e", "n", "g", "i", "n",
      "e", "e", "r">>,
      <<"d", "e", "v", "e", "l", "o", "p", "e", "r">>,
      <<"p", "r", "o", "g", "r", "a", "m", "m", "e", "r">>,
      <<"d", "a", "t", "a", " ", "s", "c", "i", "e", "n", "t", "i", "s", "t">>,
      <<"a", "n", "a", "l", "y", "s", "t">>,
      <<"m", "a", "n", "a", "g", "e", "r">>,
      <<"d", "i", "r", "e", "c", "t", "o", "r">>,
      <<"l", "e", "a", "d">>,
      <<"a", "r", "c", "h", "i", "t", "e", "c", "t">>,
      <<"c", "o", "n", "s", "u", "l", "t", "a", "n", "t">>>>

\* _extract_position_fallback: job_keywords
job_keywords ==
    <<<<"a", "n", "a", "l", "y", "s", "t">>,
      <<"e", "n", "g", "i", "n", "e", "e", "r">>,
      <<"d", "e", "v", "e", "l", "o", "p", "e", "r">>,
      <<"m", "a", "n", "a", "g", "e", "r">>,
      <<"s", "p", "e", "c", "i", "a", "l", "i", "s", "t">>,
      <<"c", "o", "o", "r", "d", "i", "n", "a", "t", "o", "r">>,
      <<"a", "s", "s", "o", "c", "i", "a", "t", "e">>,
      <<"a", "s", "s", "i", "s", "t", "a", "n", "t">>,
      <<"d", "i", "r", "e", "c", "t", "o", "r">>,
      <<"l", "e", "a", "d">>,
      <<"a", "r", "c", "h", "i", "t", "e", "c", "t">>,
      <<"c", "o", "n", "s", "u", "l", "t", "a", "n", "t">>,
      <<"a", "d", "v", "i", "s", "o", "r">>,
      <<"s", "u", "p", "e", "r", "v", "i", "s", "o", "r">>,
      <<"c", "o", "o", "r", "d", "i", "n", "a", "t", "o", "r">>>>

\* sep.join(words)
RECURSIVE Join(_, _)
Join(words, sep) ==
    IF words = << >> THEN << >>
    ELSE IF Len(words) = 1 THEN words[1]
    ELSE words[1] \o sep \o Join(Tail(words), sep)

\* ' '.join(words[max(0, i-2) : min(len(words), i+3)]), for the word at i
Surrounding(words, i) ==
    Join(SubSeq(words, IF i - 2 < 1 THEN 1 ELSE i - 2,
                IF i + 2 > Len(words) THEN Len(words) ELSE i + 2), <<" ">>)

\* the loops over the indicators and the words: the first indicator that
\* occurs inside one word decides, and the first such word is the centre.
\* An indicator that occurs in the text but in no single word (one of two
\* words) lets the loop go on to the next indicator.
PositionAround(words, indicators) ==
    LET hits == {k \in DOMAIN indicators :
                    \E i \in DOMAIN words : Occurs(indicators[k], lower(words[i]))}
        k == CHOOSE h \in hits : \A g \in hits : h <= g
        i == CHOOSE w \in DOMAIN words :
                /\ Occurs(indicators[k], lower(words[w]))
                /\ \A v \in 1..(w - 1) : ~Occurs(indicators[k], lower(words[v]))
    IN  IF hits = {} THEN << >> ELSE Surrounding(words, i)

\* JobTracker.extract_position
extract_position(subject, body) ==
    LET found == PositionAround(Words(subject \o <<" ">> \o body), position_indicators)
    IN  IF found = << >> THEN UnknownPosition ELSE title(found)

\* GeminiEmailParser._extract_position_basic
extract_position_basic(subject, body) ==
    LET found == PositionAround(Words(lower(subject \o <<" ">> \o body)),
                                position_indicators)
    IN  IF found = << >> THEN UnknownPosition ELSE title(found)

\* _extract_position_fallback: the text after 'position', 'role' or 'job'
position_markers ==
    <<<<"p", "o", "s", "i", "t", "i", "o", "n">>,
      <<"r", "o", "l", "e">>,
      <<"j", "o", "b">>>>

\* GeminiEmailParser._extract_position_fallback
extract_position_fallback(subject, body) ==
    LET found == PositionAround(Words(subject), job_keywords)
        subject_lower == lower(subject)
        parts == {k \in DOMAIN position_markers :
                    /\ Occurs(position_markers[k], subject_lower)
                    /\ strip(split_1(subject_lower, position_markers[k])) # << >>}
        k == CHOOSE h \in parts : \A g \in parts : h <= g
    IN  IF found # << >> THEN found
        ELSE IF parts # {} THEN title(strip(split_1(subject_lower, position_markers[k])))
        ELSE UnknownPosition

(***************************************************************************)
(* Parsing one message: JobTracker.parse_job_application and                *)
(* GeminiEmailParser.parse_email.  A value that is None or '' in the code   *)
(* is the empty text here; the code treats the two alike.                   *)
(***************************************************************************)
\* the Date header of the messages
DateHeader == <<"M", "o", "n", ",", " ", "1", "5", " ", "J", "a", "n", " ", "2", "0", "2", "4", " ", "0", "9", ":", "3", "0", ":", "0", "0", " ", "+", "0", "0", "0", "0">>

\* datetime.datetime.now().isoformat() at the times at which a message or
\* a file may be processed
ProcessingTimes ==
    {<<"2", "0", "2", "4", "-", "0", "2", "-", "0", "1", "T", "1", "2", ":", "0", "0", ":", "0", "0", ".", "0", "0", "0", "0", "0", "0">>,
     <<"2", "0", "2", "4", "-", "0", "2", "-", "0", "1", "T", "1", "8", ":", "3", "0", ":", "0", "0", ".", "0", "0", "0", "0", "0", "0">>,
     <<"2", "0", "2", "4", "-", "0", "2", "-", "0", "2", "T", "0", "0", ":", "0", "5", ":", "0", "0", ".", "0", "0", "0", "0", "0", "0">>}

ProcessingTime == <<"2", "0", "2", "4", "-", "0", "2", "-", "0", "1", "T", "1", "2", ":", "0", "0", ":", "0", "0", ".", "0", "0", "0", "0", "0", "0">>

\* faulty variant of parse_email_date_at: a header that cannot be parsed gives no date
parse_email_date_at_empty(date_str, now) ==
    IF date_str = DateHeader
    THEN <<"2", "0", "2", "4", "-", "0", "1", "-", "1", "5", "T", "0", "9", ":", "3", "0", ":", "0", "0", "+", "0", "0", ":", "0", "0">>
    ELSE << >>

\* JobTracker.parse_email_date called at time now: the ISO form of the
\* header, or the time of the call for a header that cannot be parsed
parse_email_date_at(date_str, now) ==
    IF date_str = DateHeader
    THEN <<"2", "0", "2", "4", "-", "0", "1", "-", "1", "5", "T", "0", "9", ":", "3", "0", ":", "0", "0", "+", "0", "0", ":", "0", "0">>
    ELSE now

parse_email_date(date_str) == parse_email_date_at(date_str, ProcessingTime)

\* f"{confidence_score:.2f}" for the scores of the model, in hundredths
format_score(score) ==
    IF score = 30 THEN <<"0", ".", "3", "0">> ELSE IF score = 90 THEN <<"0", ".", "9", "0">> ELSE <<"0", ".", "0", "0">>

\* GeminiEmailParser._safe_extract
safe_extract(value, default) ==
    IF value = << >> \/ value = <<"n", "u", "l", "l">> THEN default ELSE strip(value)

\* extraction_notes with one more remark
add_note(extraction_notes, remark) ==
    IF extraction_notes # << >> THEN extraction_notes \o <<" ", "|", " ">> \o remark
    ELSE remark

\* GeminiEmailParser._fallback_parsing
fallback_parsing(email_data) ==
    LET company == extract_company_basic(email_data.from, email_data.subject)
    IN  IF company.raised THEN Raises
        ELSE Returns([company |-> company.value,
                      position |-> extract_position_basic(email_data.subject, email_data.body),
                      status |-> determine_status_basic(email_data.subject, email_data.body),
                      application_date |-> << >>,
                      location |-> << >>,
                      job_type |-> << >>,
                      experience_level |-> << >>,
                      department |-> << >>,
                      confidence_score |-> 30,
                      extraction_notes |-> <<"F", "a", "l", "l", "b", "a", "c", "k", " ", "p", "a", "r", "s", "i", "n", "g", " ", "u", "s", "e", "d", " ", "d", "u", "e", " ", "t", "o", " ", "G", "e", "m", "i", "n", "i", " ", "e", "r", "r", "o", "r">>])

\* GeminiEmailParser.parse_email.  gemini is what the service does with the
\* prompt: it raises, or it answers with parsed_data (all fields empty for
\* an answer without JSON).
parse_email(email_data, gemini) ==
    IF gemini.kind = "raises" THEN fallback_parsing(email_data)
    ELSE LET parsed_data == gemini.parsed_data
             company == safe_extract(parsed_data.company, UnknownCompany)
             position == safe_extract(parsed_data.position, UnknownPosition)
             status == safe_extract(parsed_data.status, S_Applied)
             company_fallback == extract_company_fallback(email_data.from, email_data.subject)
             notes_1 == IF company = UnknownCompany
                        THEN add_note(parsed_data.extraction_notes,
                                      <<"C", "o", "m", "p", "a", "n", "y", " ", "e", "x", "t", "r", "a", "c", "t", "e", "d", " ", "v", "i", "a", " ", "f", "a", "l", "l", "b", "a", "c", "k">>)
                        ELSE parsed_data.extraction_notes
             notes_2 == IF position = UnknownPosition
                        THEN add_note(notes_1, <<"P", "o", "s", "i", "t", "i", "o", "n", " ", "e", "x", "t", "r", "a", "c", "t", "e", "d", " ", "v", "i", "a", " ", "f", "a", "l", "l", "b", "a", "c", "k">>)
                        ELSE notes_1
         IN  IF company = UnknownCompany /\ company_fallback.raised
             THEN fallback_parsing(email_data)
             ELSE Returns([company |-> IF company = UnknownCompany
                                       THEN company_fallback.value ELSE company,
                           position |-> IF position = UnknownPosition
                                        THEN extract_position_fallback(email_data.subject,
                                                                       email_data.body)
                                        ELSE position,
                           status |-> status,
                           application_date |-> parsed_data.application_date,
                           location |-> parsed_data.location,
                           job_type |-> parsed_data.job_type,
                           experience_level |-> parsed_data.experience_level,
                           department |-> parsed_data.department,
                           confidence_score |-> parsed_data.confidence_score,
                           extraction_notes |-> notes_2])

\* x or default
or_else(x, default) == IF x # << >> THEN x ELSE default

\* no record
NoRecord == [none |-> TRUE]

\* JobTracker._parse_job_application_basic, on the text of the message
job_application_basic(email_data) ==
    LET company == extract_company(email_data.from, email_data.subject)
        position == extract_position(email_data.subject, email_data.body)
        email_date == parse_email_date(email_data.date)
    IN  IF company.raised THEN NoRecord
        ELSE [none |-> FALSE,
              company |-> company.value,
              position |-> position,
              application_date |-> email_date,
              status |-> determine_status(email_data.subject, email_data.body),
              email_id |-> email_data.message_id,
              email_date |-> email_date,
              source |-> "Gmail (Basic)",
              job_id |-> generate_job_id(company.value, position, email_data.subject,
                                         email_date),
              notes |-> <<"S", "u", "b", "j", "e", "c", "t", ":", " ">> \o email_data.subject
                        \o <<" ", "|", " ", "B", "a", "s", "i", "c", " ", "p", "a", "r", "s", "i", "n", "g", " ", "u", "s", "e", "d">>]

\* the notes of a record made from the answer of the service
gemini_notes(subject, parsed_details) ==
    LET part(label, value) == IF value # << >> THEN <<label \o value>> ELSE << >>
    IN  Join(<<<<"S", "u", "b", "j", "e", "c", "t", ":", " ">> \o subject>>
             \o part(<<"L", "o", "c", "a", "t", "i", "o", "n", ":", " ">>, parsed_details.location)
             \o part(<<"T", "y", "p", "e", ":", " ">>, parsed_details.job_type)
             \o part(<<"L", "e", "v", "e", "l", ":", " ">>, parsed_details.experience_level)
             \o part(<<"D", "e", "p", "t", ":", " ">>, parsed_details.department)
             \o (IF parsed_details.confidence_score > 0
                 THEN <<<<"A", "I", " ", "C", "o", "n", "f", "i", "d", "e", "n", "c", "e", ":", " ">>
                        \o format_score(parsed_details.confidence_score)>>
                 ELSE << >>)
             \o part(<<"A", "I", " ", "N", "o", "t", "e", "s", ":", " ">>, parsed_details.extraction_notes),
             <<" ", "|", " ">>)

\* JobTracker.parse_job_application.  gemini.kind is "unavailable" when the
\* parser cannot be constructed.
parse_job_application(email_data, gemini) ==
    IF gemini.kind = "unavailable" THEN job_application_basic(email_data)
    ELSE LET parsed == parse_email(email_data, gemini)
             email_date == parse_email_date(email_data.date)
         IN  IF parsed.raised THEN job_application_basic(email_data)
             ELSE LET parsed_details == parsed.value
                      application_date == or_else(parsed_details.application_date, email_date)
                      company == or_else(parsed_details.company, UnknownCompany)
                      position == or_else(parsed_details.position, UnknownPosition)
                  IN  [none |-> FALSE,
                       company |-> company,
                       position |-> position,
                       application_date |-> application_date,
                       status |-> or_else(parsed_details.status, S_Applied),
                       email_id |-> email_data.message_id,
                       email_date |-> email_date,
                       source |-> "Gmail (Gemini AI)",
                       job_id |-> generate_job_id(company, position, email_data.subject,
                                                  application_date),
                       notes |-> gemini_notes(email_data.subject, parsed_details)]

\* the messages
EmailData ==
    [from : {<<"j", "o", "b", "s", "@", "a", "c", "m", "e", ".", "c", "o", "m">>,
             <<"m", "e", "@", "g", "m", "a", "i", "l", ".", "c", "o", "m">>,
             <<"f", "r", "i", "e", "n", "d", "@", "a", "o", "l", ".", "c", "o", "m">>},
     subject : {<<"A", "p", "p", "l", "i", "c", "a", "t", "i", "o", "n", " ", "f", "o",
                 "r", " ", "D", "a", "t", "a", " ", "A", "n", "a", "l", "y", "s",
                 "t">>,
                <<"C", "h", "a", "t", " ", "a", "t", " ", "A", "c", "m", "e">>,
                <<"I", "n", "t", "e", "r", "v", "i", "e", "w", " ", "i", "n", "v", "i",
                 "t", "a", "t", "i", "o", "n">>},
     body : {<< >>,
             <<"U", "n", "f", "o", "r", "t", "u", "n", "a", "t", "e", "l", "y", " ",
              "w", "e", " ", "r", "e", "g", "r", "e", "t">>},
     date : {DateHeader},
     message_id : {"m1"}]

\* what the service answers: JSON fields, empty for null or absent (all
\* empty, with score 0, for an answer without JSON)
ParsedData ==
    [company : {<< >>, <<"A", "c", "m", "e", " ", "C", "o", "r", "p">>},
     position : {<< >>, <<"D", "a", "t", "a", " ", "A", "n", "a", "l", "y", "s", "t">>},
     status : {<< >>, S_Interview, <<"O", "f", "f", "e", "r">>},
     application_date : {<< >>},
     location : {<< >>, <<"R", "e", "m", "o", "t", "e">>},
     job_type : {<< >>},
     experience_level : {<< >>},
     department : {<< >>},
     confidence_score : {0, 90},
     extraction_notes : {<< >>}]

GeminiOutcomes ==
    {[kind |-> "unavailable"], [kind |-> "raises"]}
    \cup {[kind |-> "answers", parsed_data |-> d] : d \in ParsedData}

\* the calls of parse_job_application on the messages
ParseCalls ==
    {[fn |-> "parse_job_application", email_data |-> e, gemini |-> g,
      result |-> parse_job_application(e, g)] : e \in EmailData, g \in GeminiOutcomes}

ParseJobApplication ==
    /\ call = NoCall
    /\ \E c \in ParseCalls : call' = c
    /\ UNCHANGED trackerVars

\* the statuses a record may have
StatusSet == {S_Applied, S_Interview, S_Rejected, S_Accepted, S_Withdrawn}

(***************************************************************************)
(* C16: every record parse_job_application produces has its status in the   *)
(* closed set Applied, Interview, Rejected, Accepted, Withdrawn.            *)
(***************************************************************************)
C16_StatusInClosedSet ==
    call.fn = "parse_job_application" /\ ~call.result.none
        => call.result.status \in StatusSet

\* the message got no company or no position from the service
MissingCompany ==
    call.gemini.kind = "answers" /\ call.gemini.parsed_data.company = << >>

MissingPosition ==
    call.gemini.kind = "answers" /\ call.gemini.parsed_data.position = << >>

\* what the deterministic rules give for the company and the position of a
\* message
DeterministicCompanies(email_data) ==
    {r.value : r \in {x \in {extract_company(email_data.from, email_data.subject),
                             extract_company_fallback(email_data.from, email_data.subject),
                             extract_company_basic(email_data.from, email_data.subject)} :
                        ~x.raised}}

DeterministicPositions(email_data) ==
    {extract_position(email_data.subject, email_data.body),
     extract_position_fallback(email_data.subject, email_data.body),
     extract_position_basic(email_data.subject, email_data.body)}

(***************************************************************************)
(* C20: parse_job_application returns a candidate record for every message, *)
(* whether the semantic extractor cannot be constructed, raises, or gives   *)
(* no company or position; a missing company or position is filled by the   *)
(* deterministic rules and the notes say that a fallback was used.          *)
(***************************************************************************)
C20_AlwaysACandidate ==
    call.fn = "parse_job_application" =>
        /\ ~call.result.none
        /\ call.result.company # << >> /\ call.result.position # << >>
        /\ call.gemini.kind # "answers" \/ MissingCompany \/ MissingPosition
              => Occurs(<<"a", "l", "l", "b", "a", "c", "k">>, call.result.notes)
                 \/ Occurs(<<"B", "a", "s", "i", "c", " ", "p", "a", "r", "s", "i", "n", "g", " ", "u", "s", "e", "d">>, call.result.notes)
        /\ MissingCompany => call.result.company \in DeterministicCompanies(call.email_data)
        /\ MissingPosition => call.result.position \in DeterministicPositions(call.email_data)

\* the two calls differ in exactly one of the four inputs
DifferInOneInput(c, d) ==
    Cardinality({f \in {"company", "position", "email_subject", "application_date"} :
                    c[f] # d[f]}) = 1

\* what generate_job_id keeps of its inputs: the company and the position
\* lower-cased and stripped, the keywords of the subject, the date-only part
\* of the date, and the first letters and digits of the company and of the
\* position
KeptValues(c) ==
    <<lower(strip(c.company)), lower(strip(c.position)), c.subject_keywords,
      DateOnly(c.application_date),
      Truncate(clean(c.company), 10), Truncate(clean(c.position), 15)>>

(***************************************************************************)
(* C18, as stated: two calls of generate_job_id that differ in exactly one  *)
(* input (company, position, subject or date) return different Job IDs.    *)
(***************************************************************************)
C18_AnyChangeChangesId ==
    call.fn = "generate_job_id" =>
        (DifferInOneInput(call.first, call.second)
            => call.first.result # call.second.result)

(***************************************************************************)
(* C18, amended: two calls of generate_job_id return different Job IDs      *)
(* exactly when they differ in what the function keeps of its inputs: the   *)
(* lower-cased, stripped company or position, the keywords extracted from   *)
(* the subject, the date-only part of the date, or the letters and digits   *)
(* of the company or position that open the Job ID.                         *)
(***************************************************************************)
C18_ChangeOfKeptValueChangesId ==
    call.fn = "generate_job_id" =>
        (call.first.result # call.second.result
            <=> KeptValues(call.first) # KeptValues(call.second))

\* two calls that differ in the position alone, and two that differ in the
\* day alone, with different Job IDs
C18_Witness ==
    /\ call.fn = "generate_job_id"
    /\ DifferInOneInput(call.first, call.second)
    /\ \/ lower(strip(call.first.position)) # lower(strip(call.second.position))
       \/ DateOnly(call.first.application_date) # DateOnly(call.second.application_date)
    /\ call.first.result # call.second.result

(***************************************************************************)
(* The application date of an import row: _map_columns and _normalize_date  *)
(* of JobImportTracker.                                                     *)
(***************************************************************************)
DigitSeq == <<"0", "1", "2", "3", "4", "5", "6", "7", "8", "9">>

IsNumber(s) == s # << >> /\ \A i \in DOMAIN s : s[i] \in Digits

\* int(s), for a string of digits
RECURSIVE to_int(_)
to_int(s) ==
    IF s = << >> THEN 0
    ELSE 10 * to_int(SubSeq(s, 1, Len(s) - 1))
         + (CHOOSE d \in 0..9 : DigitSeq[d + 1] = s[Len(s)])

\* the dates pd.to_datetime is given here: YYYY-MM-DD is a date, text
\* without digits is none
IsIsoDate(s) ==
    /\ Len(s) = 10
    /\ \A i \in DOMAIN s : IF i \in {5, 8} THEN s[i] = "-" ELSE s[i] \in Digits

\* _normalize_date called at time now: a date with two slashes is rewritten
\* to year-month-day, what pd.to_datetime cannot parse gives the time of
\* the call
normalize_date(date_value, now) ==
    LET p0 == Before(date_value, <<"/">>)
        rest == After(date_value, <<"/">>)
        p1 == Before(rest, <<"/">>)
        p2 == After(rest, <<"/">>)
        three == /\ Occurs(<<"/">>, date_value) /\ Occurs(<<"/">>, rest)
                 /\ ~Occurs(<<"/">>, p2)
        rewritten == IF ~three THEN date_value
                     ELSE IF to_int(p0) > 12
                     THEN p2 \o <<"-">> \o p1 \o <<"-">> \o p0
                     ELSE p2 \o <<"-">> \o p0 \o <<"-">> \o p1
    IN  IF three /\ ~IsNumber(p0) THEN now
        ELSE IF IsIsoDate(rewritten) THEN rewritten \o <<"T", "0", "0", ":", "0", "0", ":", "0", "0">>
        ELSE now

\* _map_columns: the application date of a row whose date cell is cell
\* (empty for no date column and for an empty cell)
row_application_date(cell, now) ==
    IF cell # << >> THEN normalize_date(cell, now) ELSE now

\* the Date headers and the date cells
DateHeaders == {DateHeader, << >>, <<"y", "e", "s", "t", "e", "r", "d", "a", "y">>}

DateCells == {<< >>, <<"2", "0", "2", "4", "-", "0", "1", "-", "1", "5">>, <<"0", "1", "/", "1", "5", "/", "2", "0", "2", "4">>, <<"1", "5", "/", "0", "1", "/", "2", "0", "2", "4">>, <<"s", "o", "o", "n">>}

\* a message processed at time now: its application date and Job ID
MessageAt(date_str, subject, now) ==
    LET application_date == parse_email_date_at(date_str, now)
    IN  [now |-> now, application_date |-> application_date,
         job_id |-> generate_job_id(<<"A", "c", "m", "e">>, <<"E", "n", "g", "i", "n", "e", "e", "r">>, subject, application_date)]

\* an import row processed at time now
RowAt(cell, now) ==
    LET application_date == row_application_date(cell, now)
    IN  [now |-> now, application_date |-> application_date,
         job_id |-> generate_job_id(<<"A", "c", "m", "e">>, <<"E", "n", "g", "i", "n", "e", "e", "r">>, << >>, application_date)]

\* the same input processed at two times
Reprocessings ==
    {[fn |-> "reprocess", kind |-> "message", date |-> d, subject |-> s,
      first |-> MessageAt(d, s, t1), second |-> MessageAt(d, s, t2)] :
        d \in DateHeaders, s \in IdSubjects, t1 \in ProcessingTimes, t2 \in ProcessingTimes}
    \cup
    {[fn |-> "reprocess", kind |-> "row", date |-> d, subject |-> << >>,
      first |-> RowAt(d, t1), second |-> RowAt(d, t2)] :
        d \in DateCells, t1 \in ProcessingTimes, t2 \in ProcessingTimes}

Reprocess ==
    /\ call = NoCall
    /\ \E c \in Reprocessings : call' = c
    /\ UNCHANGED trackerVars

\* the input has no date that can be read
NoUsableDate ==
    \/ call.kind = "message" /\ call.date # DateHeader
    \/ call.kind = "row" /\ call.date \in {<< >>, <<"s", "o", "o", "n">>}

(***************************************************************************)
(* C21: a message whose date cannot be parsed and an import row without a   *)
(* date get the processing time as application date, and processing the     *)
(* same input again later on the same day gives the same Job ID.            *)
(***************************************************************************)
C21_DateDefaultsToProcessingTime ==
    call.fn = "reprocess" /\ NoUsableDate =>
        /\ call.first.application_date = call.first.now
        /\ call.second.application_date = call.second.now
        /\ Before(call.first.now, <<"T">>) = Before(call.second.now, <<"T">>)
              => call.first.job_id = call.second.job_id

\* a message without a readable date processed at two times of one day
C21_Witness ==
    /\ call.fn = "reprocess" /\ NoUsableDate
    /\ call.first.now # call.second.now
    /\ Before(call.first.now, <<"T">>) = Before(call.second.now, <<"T">>)
    /\ call.first.application_date # call.second.application_date
    /\ call.first.job_id = call.second.job_id

(***************************************************************************)
(* Bulk import, column mapping: _map_columns and _get_value of              *)
(* ExcelJobImporter and of JobImportTracker, for the company field.  A      *)
(* file is its column names and, for one row, the cells under them; an      *)
(* empty cell (NaN) is the empty text.                                      *)
(***************************************************************************)
\* ExcelJobImporter._map_columns: column_mappings['company']
company_names_excel ==
    <<<<"c", "o", "m", "p", "a", "n", "y">>,
      <<"c", "o", "m", "p", "a", "n", "y", "_", "n", "a", "m", "e">>,
      <<"e", "m", "p", "l", "o", "y", "e", "r">>,
      <<"o", "r", "g", "a", "n", "i", "z", "a", "t", "i", "o", "n">>>>

\* JobImportTracker._map_columns: column_mappings['company']
company_names_import == <<<<"c", "o", "m", "p", "a", "n", "y">>>>

\* the first of the possible names that is the lower-cased name of a column
FirstMatch(columns, possible_names) ==
    LET hits == {k \in DOMAIN possible_names :
                    \E i \in DOMAIN columns : lower(columns[i]) = lower(possible_names[k])}
    IN  IF hits = {} THEN 0 ELSE CHOOSE h \in hits : \A g \in hits : h <= g

\* ExcelJobImporter._map_columns: actual_columns[field] is the name of the
\* table, << >> for no entry
actual_column_excel(columns, possible_names) ==
    IF FirstMatch(columns, possible_names) = 0 THEN << >>
    ELSE possible_names[FirstMatch(columns, possible_names)]

\* JobImportTracker._map_columns: actual_columns[field] is the name the file
\* gives the column (lower_columns keeps the last column of a name)
actual_column_import(columns, possible_names) ==
    LET k == FirstMatch(columns, possible_names)
        cols == {i \in DOMAIN columns : lower(columns[i]) = possible_names[k]}
    IN  IF k = 0 \/ cols = {} THEN << >>
        ELSE columns[CHOOSE i \in cols : \A j \in cols : j <= i]

\* _get_value: the stripped cell under column_name, default when the row
\* has no such column or the cell is empty
get_value(columns, cells, column_name, default) ==
    LET cols == {i \in DOMAIN columns : columns[i] = column_name}
        cell == cells[CHOOSE i \in cols : \A j \in cols : i <= j]
    IN  IF column_name = << >> \/ cols = {} THEN default
        ELSE IF cell = << >> THEN default
        ELSE strip(cell)

\* the company of the row, by each importer
company_excel(columns, cells) ==
    get_value(columns, cells, actual_column_excel(columns, company_names_excel),
              UnknownCompany)

company_import(columns, cells) ==
    get_value(columns, cells, actual_column_import(columns, company_names_import),
              UnknownCompany)

\* the names a file gives its company column, and the cells under it
ColumnNames ==
    {<<"c", "o", "m", "p", "a", "n", "y">>,
     <<"C", "o", "m", "p", "a", "n", "y">>,
     <<"E", "M", "P", "L", "O", "Y", "E", "R">>,
     <<"O", "r", "g", "a", "n", "i", "z", "a", "t", "i", "o", "n">>,
     <<"F", "i", "r", "m">>}

Cells == {<< >>, <<"A", "c", "m", "e">>, <<" ", "A", "c", "m", "e", " ">>}

MapColumns ==
    /\ call = NoCall
    /\ \E name \in ColumnNames, cell \in Cells, other \in Cells :
          LET columns == <<<<"T", "i", "t", "l", "e">>, name>>
              cells == <<other, cell>>
          IN  call' = [fn |-> "map_columns", columns |-> columns, cells |-> cells,
                       name |-> name, cell |-> cell,
                       excel |-> company_excel(columns, cells),
                       import |-> company_import(columns, cells)]
    /\ UNCHANGED trackerVars

\* the synonyms of company
CompanySynonyms ==
    {<<"c", "o", "m", "p", "a", "n", "y">>,
     <<"c", "o", "m", "p", "a", "n", "y", "_", "n", "a", "m", "e">>,
     <<"e", "m", "p", "l", "o", "y", "e", "r">>,
     <<"o", "r", "g", "a", "n", "i", "z", "a", "t", "i", "o", "n">>}

(***************************************************************************)
(* C22: a column whose name is a synonym of company when case is ignored    *)
(* supplies the company of the row; the sentinel is used only when no       *)
(* column matches or the cell is empty.                                     *)
(***************************************************************************)
C22_SynonymColumnSuppliesValue ==
    call.fn = "map_columns" =>
        \A company \in {call.excel, call.import} :
            IF lower(call.name) \in CompanySynonyms /\ call.cell # << >>
            THEN company = strip(call.cell)
            ELSE company = UnknownCompany

(***************************************************************************)
(* authenticate_and_get_status called on a tracker just constructed.        *)
(***************************************************************************)
Authenticate ==
    /\ call = NoCall
    /\ \E env \in AuthEnvs :
          call' = [fn |-> "authenticate_and_get_status", env |-> env,
                   result |-> authenticate_and_get_status(env)]
    /\ UNCHANGED trackerVars

(***************************************************************************)
(* C28: authenticate_and_get_status returns True with the three clients     *)
(* initialised whenever it obtained valid credentials (a valid token, an    *)
(* expired token refreshed, or the browser flow) and no client construction *)
(* raised; whenever it returns False the status is FAILURE and no client    *)
(* was initialised.                                                         *)
(***************************************************************************)
C28_AuthAllOrNothing ==
    call.fn = "authenticate_and_get_status" =>
        LET auth == call.result
            clients == {auth.gmail, auth.sheets, auth.gspread}
        IN  /\ (CredsValid(call.env) /\ call.env.build = 0)
                  => (auth.success /\ clients = {TRUE})
            /\ ~auth.success => (auth.status = "FAILURE" /\ clients = {FALSE})

(***************************************************************************)
(* C29: extract_position_keywords returns at most two keywords joined by an *)
(* underscore: the first two entries of the vocabulary, in the order of the *)
(* vocabulary, that occur in the lower-cased subject.  An empty subject     *)
(* gives the empty string and a Job ID of company, position and hash only.  *)
(***************************************************************************)
\* the places in the vocabulary of the entries that occur in the subject
PlacesFound(subject) ==
    {i \in DOMAIN role_keywords : Occurs(role_keywords[i], lower(subject))}

Least(places) == CHOOSE i \in places : \A j \in places : i <= j

FirstTwoJoined(subject) ==
    LET places == PlacesFound(subject)
    IN  IF places = {} THEN << >>
        ELSE IF Cardinality(places) = 1 THEN role_keywords[Least(places)]
        ELSE role_keywords[Least(places)] \o <<"_">>
             \o role_keywords[Least(places \ {Least(places)})]

\* the subjects of the calls, each with the keywords it is to give
ExpectedKeywords == {<<subject, FirstTwoJoined(subject)>> : subject \in IdSubjects}

\* the segments of a Job ID before its hash
Segments(job_id) ==
    LET readable == Before(job_id, <<"#">>)
    IN  Cardinality({i \in DOMAIN readable : readable[i] = "_"})

C29_FirstTwoInVocabularyOrder ==
    call.fn = "generate_job_id" =>
        \A c \in {call.first, call.second} :
            /\ <<c.email_subject, c.subject_keywords>> \in ExpectedKeywords
            /\ Cardinality({i \in DOMAIN c.subject_keywords :
                               c.subject_keywords[i] = "_"}) <= 1
            /\ c.email_subject = << >> =>
                  (c.subject_keywords = << >> /\ Segments(c.result) = 2)

C29_Witness ==
    /\ call.fn = "generate_job_id"
    /\ call.first.email_subject = <<"R", "e", "m", "o", "t", "e", " ", "B", "a", "c", "k", "e", "n", "d", " ", "S", "e", "n", "i", "o", "r", " ", "r", "o", "l", "e">>
    /\ call.first.subject_keywords = <<"b", "a", "c", "k", "e", "n", "d", "_", "s", "e", "n", "i", "o", "r">>
    /\ call.second.email_subject = << >>
    /\ call.second.subject_keywords = << >>

(***************************************************************************)
(* C30: when the domain segment of the sender is gmail, yahoo, hotmail,     *)
(* outlook or aol, company extraction does not return the domain: it        *)
(* returns the word after the first of the markers 'AT ', 'FOR ', 'WITH ',  *)
(* 'VIA ', 'FROM ' in the subject, or 'Unknown Company' when there is none.  *)
(* For every other domain it returns the title-cased domain segment.  This  *)
(* holds for extract_company and both fallbacks of the semantic parser,     *)
(* whenever they return.                                                    *)
(***************************************************************************)
GenericProviders == {<<"g", "m", "a", "i", "l">>, <<"y", "a", "h", "o", "o">>, <<"h", "o", "t", "m", "a", "i", "l">>, <<"o", "u", "t", "l", "o", "o", "k">>, <<"a", "o", "l">>}

SubjectMarkers == <<<<"A", "T", " ">>, <<"F", "O", "R", " ">>, <<"W", "I", "T", "H", " ">>, <<"V", "I", "A", " ">>, <<"F", "R", "O", "M", " ">>>>

C30_GenericProviderIsNotACompany ==
    (call.fn = "extract_company" /\ Occurs(<<"@">>, call.from_email)) =>
        LET domain == domain_of(call.from_email)
            marked == company_from_subject(call.subject, SubjectMarkers)
        IN  \A r \in {call.result, call.fallback, call.basic} :
                (~r.raised /\ ~marked.raised) =>
                    IF domain \in GenericProviders
                    THEN r.value = marked.value
                    ELSE r.value = title(domain)

FnNext ==
    \/ \E subject \in Subjects, body \in Bodies : DetermineStatus(subject, body)
    \/ \E from_email \in FromAddresses, subject \in CompanySubjects :
          ExtractCompany(from_email, subject)
    \/ GenerateJobId
    \/ ParseJobApplication
    \/ Reprocess
    \/ MapColumns
    \/ Authenticate
    \/ Return

FnSpec == Init /\ [][FnNext]_vars

=============================================================================
